---------------------------- MODULE Spec2Model ----------------------------
(***************************************************************************)
(* libzseek: seekable compressed archives.                                 *)
(*                                                                         *)
(* The model follows the latest revision of the sources: the writer        *)
(* (zseek_write / zseek_writer_close), the reader (zseek_reader_open_full, *)
(* zseek_pread with and without cache), the seek-table codec               *)
(* (ZSTD_seekable_writeSeekTable, read_seek_table, offset_to_frame_idx)    *)
(* and the frame cache (uthash insertion-order map).                       *)
(*                                                                         *)
(* A file is a sequence of bytes (0..255).  The compression libraries are  *)
(* opaque to the repository; they are modelled by a storing codec whose    *)
(* frames are  magic(4 bytes, little-endian) ++ <<n>> ++ n payload bytes,  *)
(* so a frame is self-delimiting, frames concatenate, and decoding works   *)
(* only from the bytes actually present in the file.                       *)
(***************************************************************************)
EXTENDS Integers, Sequences, FiniteSets, TLC

VARIABLES
    tl,         \* seek-table codec bench: frame log, encoder output, parsed table
    w,          \* struct zseek_writer
    file,       \* the bytes of the archive (the writer's sink, the reader's source)
    accepted,   \* the bytes accepted by successful zseek_write calls, in order
    rd,         \* struct zseek_reader (with its cache)
    last,       \* the last zseek_pread call of the single-threaded caller
    acc,        \* the caller's loop of consecutive preads (test/example.c)
    th,         \* the threads that share the reader, and who holds its lock
    cb,         \* a cache or a buffer on its own, as test/test_*.c drive them
    io          \* the condition of the reader's source (zseek_read_file_t)

vars == <<tl, w, file, accepted, rd, last, acc, th, cb, io>>

----------------------------------------------------------------------------
(* Program constants *)

ZSTD_seekTableFooterSize == 9
\* 32-bit magic numbers are kept as their four little-endian bytes
ZSTD_SEEKABLE_MAGICNUMBER == <<177, 234, 146, 143>>       \* 0x8F92EAB1
ZSTD_SKIPPABLEHEADERSIZE == 8
SEEKTABLE_SKIPPABLE_MAGICNUMBER == <<94, 42, 77, 24>>     \* 0x184D2A50 | 0xE
SEEK_ENTRY_SIZE_NO_CHECKSUM == 8
SEEK_ENTRY_CHECKSUM_SIZE == 4
SEEKKTABLE_BUF_SIZE == 4096
ZSTD_MAGIC == <<40, 181, 47, 253>>                        \* 0xFD2FB528
LZ4_MAGIC == <<4, 34, 77, 24>>                            \* 0x184D2204
DEFAULT_FRAMES_PER_STE == 10
MIN_TRAILER_CHUNK == 4096

(* Bounds of the model *)

MaxEntries == 3        \* frame-log entries of the seek-table bench

----------------------------------------------------------------------------
(* Helpers *)

MIN(a, b) == IF a < b THEN a ELSE b

RECURSIVE SumSeq(_)
SumSeq(s) == IF s = <<>> THEN 0 ELSE Head(s) + SumSeq(Tail(s))


MEM_writeLE32(val32) ==
    << val32 % 256, (val32 \div 256) % 256,
       (val32 \div 65536) % 256, (val32 \div 16777216) % 256 >>

\* a reader taking the word in big-endian order
MEM_readBE32(b, i) ==
    b[i + 4] + 256 * b[i + 3] + 65536 * b[i + 2] + 16777216 * b[i + 1]

\* the 32-bit little-endian word at 0-based position i of byte sequence b
MEM_readLE32(b, i) ==
    b[i + 1] + 256 * b[i + 2] + 65536 * b[i + 3] + 16777216 * b[i + 4]

BitAnd7c(byte) == ((byte \div 4) % 32) # 0     \* byte & 0x7c
BitAnd80(byte) == byte >= 128                  \* byte & 0x80

----------------------------------------------------------------------------
(* Seek-table encoder (frame log) *)

ZSTD_seekable_createFrameLog(checksumFlag) ==
    [entries |-> <<>>, checksumFlag |-> checksumFlag,
     seekTablePos |-> 0, seekTableIndex |-> 0]

ZSTD_seekable_logFrame(fl, compressedSize, decompressedSize, checksum) ==
    [fl EXCEPT !.entries = Append(@,
        [cSize |-> compressedSize, dSize |-> decompressedSize,
         checksum |-> checksum])]

ZSTD_seekable_seekTableSize(fl) ==
    LET sizePerFrame == 8 + (IF fl.checksumFlag # 0 THEN 4 ELSE 0)
    IN  ZSTD_SKIPPABLEHEADERSIZE + sizePerFrame * Len(fl.entries)
            + ZSTD_seekTableFooterSize

\* a write that starts every word at its first byte, whatever was written
\* of it by the call before
ZSTD_stwrite32_from_start(s, tmp, offset) ==
    IF s.fl.seekTablePos < offset + 4
    THEN LET lenWrite == MIN(s.size - Len(s.dst), offset + 4 - s.fl.seekTablePos)
             fl2      == [s.fl EXCEPT !.seekTablePos = @ + lenWrite]
         IN  [s EXCEPT !.fl  = fl2,
                       !.dst = @ \o SubSeq(tmp, 1, lenWrite),
                       !.ret = IF lenWrite < 4
                               THEN ZSTD_seekable_seekTableSize(fl2) - fl2.seekTablePos
                               ELSE 0]
    ELSE [s EXCEPT !.ret = 0]

\* An encoder step works on s = [fl, size, dst, ret]: the frame log, the
\* capacity of the output chunk, the bytes put in the chunk so far
\* (output->pos = Len(dst)) and the value a failed CHECK_Z returns.
\* `tmp` is the word to write, already in little-endian bytes.
ZSTD_stwrite32(s, tmp, offset) ==
    IF s.fl.seekTablePos < offset + 4
    THEN LET lenWrite == MIN(s.size - Len(s.dst), offset + 4 - s.fl.seekTablePos)
             from     == s.fl.seekTablePos - offset
             fl2      == [s.fl EXCEPT !.seekTablePos = @ + lenWrite]
         IN  [s EXCEPT !.fl  = fl2,
                       !.dst = @ \o SubSeq(tmp, from + 1, from + lenWrite),
                       !.ret = IF lenWrite < 4
                               THEN ZSTD_seekable_seekTableSize(fl2) - fl2.seekTablePos
                               ELSE 0]
    ELSE [s EXCEPT !.ret = 0]

\* the while loop over the entries; stops at the first CHECK_Z that returns
RECURSIVE WriteEntries(_)
WriteEntries(s) ==
    IF s.fl.seekTableIndex >= Len(s.fl.entries) THEN [s EXCEPT !.ret = 0]
    ELSE LET sizePerFrame == 8 + (IF s.fl.checksumFlag # 0 THEN 4 ELSE 0)
             start == ZSTD_SKIPPABLEHEADERSIZE + sizePerFrame * s.fl.seekTableIndex
             e  == s.fl.entries[s.fl.seekTableIndex + 1]
             Checksum(s3) ==
                 IF s3.ret # 0 THEN s3
                 ELSE WriteEntries([s3 EXCEPT !.fl.seekTableIndex = @ + 1])
             DSize(s2) ==
                 IF s2.ret # 0 THEN s2
                 ELSE Checksum(IF s.fl.checksumFlag # 0
                               THEN ZSTD_stwrite32(s2, MEM_writeLE32(e.checksum), start + 8)
                               ELSE s2)
             CSize(s1) ==
                 IF s1.ret # 0 THEN s1
                 ELSE DSize(ZSTD_stwrite32(s1, MEM_writeLE32(e.dSize), start + 4))
         IN  CSize(ZSTD_stwrite32(s, MEM_writeLE32(e.cSize), start))

\* an encoder that reports the table complete and writes none of it
ZSTD_seekable_writeSeekTable_nothing(fl, size) ==
    [fl |-> fl, size |-> size, dst |-> <<>>, ret |-> 0]

\* One call with an output chunk of `size` bytes: [fl, size, dst, ret];
\* ret = 0 when the table is complete, -1 for ERROR(GENERIC), else the
\* number of bytes still to come.
ZSTD_seekable_writeSeekTable(fl, size) ==
    LET seekTableLen == ZSTD_seekable_seekTableSize(fl)
        Magic(s6) ==
            IF s6.ret # 0 THEN s6
            ELSE IF s6.fl.seekTablePos # seekTableLen THEN [s6 EXCEPT !.ret = -1]
            ELSE [s6 EXCEPT !.ret = 0]
        Descriptor(s4) ==
            IF s4.ret # 0 THEN s4
            ELSE IF s4.size - Len(s4.dst) < 1
                 THEN [s4 EXCEPT !.ret = seekTableLen - s4.fl.seekTablePos]
            ELSE Magic(ZSTD_stwrite32(
                     IF s4.fl.seekTablePos < seekTableLen - 4
                     THEN [s4 EXCEPT !.dst = Append(@, (IF s4.fl.checksumFlag # 0
                                                        THEN 128 ELSE 0)),
                                     !.fl.seekTablePos = @ + 1]
                     ELSE s4,
                     ZSTD_SEEKABLE_MAGICNUMBER, seekTableLen - 4))
        NumFrames(s3) ==
            IF s3.ret # 0 THEN s3
            ELSE Descriptor(ZSTD_stwrite32(s3, MEM_writeLE32(Len(s3.fl.entries)),
                                           seekTableLen - ZSTD_seekTableFooterSize))
        Entries(s2) == IF s2.ret # 0 THEN s2 ELSE NumFrames(WriteEntries(s2))
        FrameSize(s1) ==
            IF s1.ret # 0 THEN s1
            ELSE Entries(ZSTD_stwrite32(s1,
                     MEM_writeLE32(seekTableLen - ZSTD_SKIPPABLEHEADERSIZE), 4))
    IN  FrameSize(ZSTD_stwrite32([fl |-> fl, size |-> size, dst |-> <<>>, ret |-> 0],
                                 SEEKTABLE_SKIPPABLE_MAGICNUMBER, 0))

----------------------------------------------------------------------------
(* Seek-table parser and search *)

\* zseek_read_file_t.pread as implemented by default_pread: [n, data];
\* n = -1 when the seek fails (negative offset), else the bytes available.
\* Bytes the source does not deliver: where a read stops short, and where
\* a read fails
ShortStop == -1
ReadError == -2

\* user_file.pread(buf, size, offset): [n, data], n the value returned and
\* data the n bytes put in buf.  A read stops ahead of a ShortStop and
\* fails over a ReadError.
PreadFile(f, size, offset) ==
    IF offset < 0 THEN [n |-> -1, data |-> <<>>]
    ELSE LET Got(bytes) ==
                 LET Upto(bad) ==
                         IF bad = {} THEN [n |-> Len(bytes), data |-> bytes]
                         ELSE IF \E i \in bad : bytes[i] = ReadError
                         THEN [n |-> -1, data |-> <<>>]
                         ELSE [n |-> Cardinality({i \in 1..Len(bytes) :
                                                   \A k \in bad : i < k}),
                               data |-> SubSeq(bytes, 1,
                                         Cardinality({i \in 1..Len(bytes) :
                                                       \A k \in bad : i < k}))]
                 IN  Upto({i \in 1..Len(bytes) : bytes[i] < 0})
         IN  Got(SubSeq(f, offset + 1,
                        offset + (IF offset >= Len(f) THEN 0
                                  ELSE MIN(size, Len(f) - offset))))

NoST == [tableLen |-> -1]

\* what freshly malloc'ed memory may hold in a checksum field
UninitWords == {0, 57005}

\* The entry loop of read_st_entries.  it = [e, buf, buf_idx, entries_off,
\* c_offset, d_offset, entries, ok]; `uninit` is what the malloc'ed checksum
\* field holds when the table carries no checksums.
RECURSIVE ReadEntriesLoop(_, _, _, _, _)
ReadEntriesLoop(f, num_entries, checksum, uninit, it) ==
    LET entry_size == SEEK_ENTRY_SIZE_NO_CHECKSUM +
                        (IF checksum THEN SEEK_ENTRY_CHECKSUM_SIZE ELSE 0)
        buf_len == SEEKKTABLE_BUF_SIZE - (SEEKKTABLE_BUF_SIZE % entry_size)
    IN  IF it.e >= num_entries
        THEN [it EXCEPT !.entries = Append(@,
                [cOffset |-> it.c_offset, dOffset |-> it.d_offset, checksum |-> uninit])]
        ELSE LET fill == it.buf_idx = 0 \/ it.buf_idx = buf_len
                 to_read == MIN((num_entries - it.e) * entry_size, buf_len)
                 got == PreadFile(f, to_read, it.entries_off)
             IN  IF fill /\ got.n # to_read THEN [it EXCEPT !.ok = FALSE]
                 ELSE LET buf == IF fill THEN got.data ELSE it.buf
                          idx == IF fill THEN 0 ELSE it.buf_idx
                          off == IF fill THEN it.entries_off + got.n ELSE it.entries_off
                          ent == [cOffset |-> it.c_offset, dOffset |-> it.d_offset,
                                  checksum |-> IF checksum THEN MEM_readLE32(buf, idx + 8)
                                               ELSE uninit]
                      IN  ReadEntriesLoop(f, num_entries, checksum, uninit,
                            [e |-> it.e + 1, buf |-> buf,
                             buf_idx |-> idx + entry_size, entries_off |-> off,
                             c_offset |-> it.c_offset + MEM_readLE32(buf, idx),
                             d_offset |-> it.d_offset + MEM_readLE32(buf, idx + 4),
                             entries |-> Append(it.entries, ent), ok |-> TRUE])

read_st_entries(f, entries_off, num_entries, checksum, uninit) ==
    ReadEntriesLoop(f, num_entries, checksum, uninit,
        [e |-> 0, buf |-> <<>>, buf_idx |-> 0, entries_off |-> entries_off,
         c_offset |-> 0, d_offset |-> 0, entries |-> <<>>, ok |-> TRUE])

\* NoST on failure, else [entries (tableLen + 1 of them), tableLen, checksumFlag]
read_seek_table(f, uninit) ==
    LET fsize  == Len(f)
        footer == PreadFile(f, ZSTD_seekTableFooterSize, fsize - ZSTD_seekTableFooterSize)
    IN  IF footer.n # ZSTD_seekTableFooterSize THEN NoST
        ELSE IF SubSeq(footer.data, 6, 9) # ZSTD_SEEKABLE_MAGICNUMBER THEN NoST
        ELSE IF BitAnd7c(footer.data[5]) THEN NoST
        ELSE
        LET checksum   == BitAnd80(footer.data[5])
            num_frames == MEM_readLE32(footer.data, 0)
            seek_entry_size == SEEK_ENTRY_SIZE_NO_CHECKSUM +
                                 (IF checksum THEN SEEK_ENTRY_CHECKSUM_SIZE ELSE 0)
            seek_frame_size == ZSTD_SKIPPABLEHEADERSIZE +
                                 num_frames * seek_entry_size + ZSTD_seekTableFooterSize
            header == PreadFile(f, ZSTD_SKIPPABLEHEADERSIZE, fsize - seek_frame_size)
        IN  IF header.n # ZSTD_SKIPPABLEHEADERSIZE THEN NoST
            ELSE IF SubSeq(header.data, 1, 4) # SEEKTABLE_SKIPPABLE_MAGICNUMBER THEN NoST
            ELSE IF MEM_readLE32(header.data, 4) # seek_frame_size - ZSTD_SKIPPABLEHEADERSIZE
                 THEN NoST
            ELSE LET r == read_st_entries(f,
                            fsize - seek_frame_size + ZSTD_SKIPPABLEHEADERSIZE,
                            num_frames, checksum, uninit)
                 IN  IF ~r.ok THEN NoST
                     ELSE [entries |-> r.entries, tableLen |-> num_frames,
                           checksumFlag |-> IF checksum THEN 1 ELSE 0]

\* a search that compares with < where the code compares with <=
RECURSIVE BinSearchStrict(_, _, _, _)
BinSearchStrict(st, offset, lo, hi) ==
    IF lo + 1 < hi
    THEN LET mid == lo + ((hi - lo) \div 2)
         IN  IF st.entries[mid + 1].dOffset < offset
             THEN BinSearchStrict(st, offset, mid, hi)
             ELSE BinSearchStrict(st, offset, lo, mid)
    ELSE lo

\* while (lo + 1 < hi) of offset_to_frame_idx; entries are 1-based here
RECURSIVE BinSearch(_, _, _, _)
BinSearch(st, offset, lo, hi) ==
    IF lo + 1 < hi
    THEN LET mid == lo + ((hi - lo) \div 2)
         IN  IF st.entries[mid + 1].dOffset <= offset
             THEN BinSearch(st, offset, mid, hi)
             ELSE BinSearch(st, offset, lo, mid)
    ELSE lo

offset_to_frame_idx(st, offset) ==
    IF offset >= st.entries[st.tableLen + 1].dOffset THEN -1
    ELSE BinSearch(st, offset, 0, st.tableLen)

frame_offset_c(st, frame_idx) == st.entries[frame_idx + 1].cOffset
frame_offset_d(st, frame_idx) == st.entries[frame_idx + 1].dOffset
frame_size_c(st, frame_idx) ==
    st.entries[frame_idx + 2].cOffset - st.entries[frame_idx + 1].cOffset
frame_size_d(st, frame_idx) ==
    st.entries[frame_idx + 2].dOffset - st.entries[frame_idx + 1].dOffset
seek_table_entries(st) == st.tableLen
seek_table_decompressed_size(st) == st.entries[st.tableLen + 1].dOffset

\* the offsets around every entry boundary of a table
LookupOffsets(st) ==
    { st.entries[i].dOffset + d : i \in 1..(st.tableLen + 1), d \in {-1, 0, 1} }
        \cap Nat

----------------------------------------------------------------------------
(* The compression libraries, as a storing codec.  A frame is the codec's  *)
(* magic number, one length byte and the payload.                          *)

\* ZSTD_compress2 / ZSTD_compressStream2(ZSTD_e_end): one whole frame
ZSTD_compress2(src) == ZSTD_MAGIC \o <<Len(src)>> \o src

\* LZ4F_compressFrame: one whole frame
LZ4F_compressFrame(src) == LZ4_MAGIC \o <<Len(src)>> \o src

----------------------------------------------------------------------------
(* Writer *)

\* the k-th byte a caller hands to zseek_write carries its position, so
\* that lost, repeated or reordered bytes show in what is read back
InputBytes(from, len) == [i \in 1..len |-> (from + i) % 256]

\* zseek_writer_open_full_zstd / zseek_writer_open_full_lz4
zseek_writer_open_full(type, mt, min_frame_size) ==
    [state |-> "open", type |-> type, mt |-> mt, cctx |-> <<>>,
     frame_uc |-> 0, frame_cm |-> 0, min_frame_size |-> min_frame_size,
     total_cm |-> 0, fl |-> ZSTD_seekable_createFrameLog(0),
     ubuf |-> <<>>, frames_per_ste |-> DEFAULT_FRAMES_PER_STE,
     ste_frames |-> 0, ste_uc |-> 0, ste_cm |-> 0]

\* The writer operators work on x = [w, file]: the writer and its sink.

\* ste_frames++ ... reset of the counters, common to end_frame_* and
\* compress_frame_*; `log` tells whether a seek table entry is due
AccountFrame(wr, force_ste) ==
    LET w1 == [wr EXCEPT !.ste_frames = @ + 1,
                         !.ste_uc = @ + wr.frame_uc,
                         !.ste_cm = @ + wr.frame_cm]
        w2 == IF w1.ste_frames = w1.frames_per_ste \/ force_ste
              THEN [w1 EXCEPT !.fl = ZSTD_seekable_logFrame(@, w1.ste_cm, w1.ste_uc, 0),
                              !.ste_frames = 0, !.ste_uc = 0, !.ste_cm = 0]
              ELSE w1
    IN  [w2 EXCEPT !.total_cm = @ + wr.frame_cm, !.frame_uc = 0, !.frame_cm = 0]

end_frame_zstd_mt(x, force_ste) ==
    LET out == ZSTD_compress2(x.w.cctx)
        w1  == [x.w EXCEPT !.cctx = <<>>, !.frame_cm = @ + Len(out)]
    IN  [w |-> AccountFrame(w1, force_ste), file |-> x.file \o out]

end_frame_zstd(x, force_ste) ==
    IF x.w.mt THEN end_frame_zstd_mt(x, force_ste)
    ELSE LET out == ZSTD_compress2(x.w.ubuf)
             w1  == [x.w EXCEPT !.frame_cm = @ + Len(out)]
         IN  [w |-> [AccountFrame(w1, force_ste) EXCEPT !.ubuf = <<>>],
              file |-> x.file \o out]

end_frame_lz4(x, force_ste) ==
    LET out == LZ4F_compressFrame(x.w.ubuf)
        w1  == [x.w EXCEPT !.frame_cm = @ + Len(out)]
    IN  [w |-> [AccountFrame(w1, force_ste) EXCEPT !.ubuf = <<>>],
         file |-> x.file \o out]

\* a write with workers that never ends the frame
zseek_write_zstd_mt_no_end(x, buf) ==
    [x EXCEPT !.w.cctx = @ \o buf, !.w.frame_uc = @ + Len(buf)]

\* ZSTD_e_continue hands the bytes to the workers; they come out at the
\* ZSTD_e_end of end_frame_zstd_mt
zseek_write_zstd_mt(x, buf) ==
    LET x1 == IF x.w.frame_uc >= x.w.min_frame_size
              THEN end_frame_zstd(x, FALSE) ELSE x
    IN  [x1 EXCEPT !.w.cctx = @ \o buf, !.w.frame_uc = @ + Len(buf)]

compress_frame_zstd(x, buf) ==
    LET out == ZSTD_compress2(buf)
        w1  == [x.w EXCEPT !.frame_uc = @ + Len(buf), !.frame_cm = @ + Len(out)]
    IN  [w |-> AccountFrame(w1, FALSE), file |-> x.file \o out]

zseek_write_zstd(x, buf) ==
    IF x.w.mt THEN zseek_write_zstd_mt(x, buf)
    ELSE IF x.w.frame_cm = 0 /\ Len(buf) >= x.w.min_frame_size
    THEN compress_frame_zstd(x, buf)
    ELSE LET x1 == [x EXCEPT !.w.ubuf = @ \o buf, !.w.frame_uc = @ + Len(buf)]
         IN  IF x1.w.frame_uc >= x1.w.min_frame_size
             THEN end_frame_zstd(x1, FALSE) ELSE x1

compress_frame_lz4(x, buf) ==
    LET out == LZ4F_compressFrame(buf)
        w1  == [x.w EXCEPT !.frame_uc = @ + Len(buf), !.frame_cm = @ + Len(out)]
    IN  [w |-> AccountFrame(w1, FALSE), file |-> x.file \o out]

zseek_write_lz4(x, buf) ==
    IF x.w.frame_cm = 0 /\ Len(buf) >= x.w.min_frame_size
    THEN compress_frame_lz4(x, buf)
    ELSE LET x1 == [x EXCEPT !.w.ubuf = @ \o buf, !.w.frame_uc = @ + Len(buf)]
         IN  IF x1.w.frame_uc >= x1.w.min_frame_size
             THEN end_frame_lz4(x1, FALSE) ELSE x1

\* zseek_write with the buffer left out: every call makes a frame of its
\* bytes
zseek_write_unbuffered(x, buf) ==
    IF x.w.type = "ZSTD" THEN compress_frame_zstd(x, buf)
    ELSE compress_frame_lz4(x, buf)

zseek_write(x, buf) ==
    IF x.w.type = "ZSTD" THEN zseek_write_zstd(x, buf) ELSE zseek_write_lz4(x, buf)

\* the do-while that writes the seek table, chunk by chunk; rem is a
\* size_t, so that an error code of the encoder is > 0 as well
RECURSIVE WriteTrailer(_, _)
WriteTrailer(x, cbuf_len) ==
    LET Chunk(r) ==
            IF r.ret # 0
            THEN WriteTrailer([x EXCEPT !.w.fl = r.fl, !.file = @ \o r.dst], cbuf_len)
            ELSE [x EXCEPT !.w.fl = r.fl, !.file = @ \o r.dst]
    IN  Chunk(ZSTD_seekable_writeSeekTable(x.w.fl, cbuf_len))

zseek_writer_close_zstd(x) ==
    LET x1 == IF x.w.frame_uc > 0 THEN end_frame_zstd(x, TRUE) ELSE x
    IN  [WriteTrailer(x1, MIN_TRAILER_CHUNK) EXCEPT !.w.state = "closed"]

zseek_writer_close_lz4(x) ==
    LET x1 == IF x.w.frame_uc > 0 THEN end_frame_lz4(x, TRUE) ELSE x
    IN  [WriteTrailer(x1, MIN_TRAILER_CHUNK) EXCEPT !.w.state = "closed"]

zseek_writer_close(x) ==
    IF x.w.type = "ZSTD" THEN zseek_writer_close_zstd(x) ELSE zseek_writer_close_lz4(x)

\* zseek_writer_stats: the fields that do not depend on the allocator
zseek_writer_stats(wr) ==
    [frames |-> Len(wr.fl.entries) + (IF wr.frame_uc > 0 THEN 1 ELSE 0),
     seek_table_size |-> ZSTD_seekable_seekTableSize(wr.fl)
                            + (IF wr.frame_uc > 0 THEN 8 ELSE 0),
     compressed_size |-> wr.total_cm + wr.frame_cm
                            + ZSTD_seekable_seekTableSize(wr.fl)
                            + (IF wr.frame_uc > 0 THEN 8 ELSE 0)]

----------------------------------------------------------------------------
(* Decoders of the storing codec *)

\* the frame header at 0-based position pos of src: "short" when the source
\* ends inside it, "bad" when the magic number is not the codec's
FrameHeaderAt(src, pos, magic) ==
    IF pos + Len(magic) + 1 > Len(src) THEN [kind |-> "short", n |-> 0]
    ELSE IF SubSeq(src, pos + 1, pos + Len(magic)) # magic THEN [kind |-> "bad", n |-> 0]
    ELSE [kind |-> "ok", n |-> src[pos + Len(magic) + 1]]

\* Decoding the concatenated frames of src until `want` bytes are out
\* (want = -1: until the source ends).  [err, data]; err when a header is
\* wrong or the source ends before the bytes asked for.
RECURSIVE DecodeFrames(_, _, _, _)
DecodeFrames(src, pos, want, magic) ==
    IF want = 0 \/ (want < 0 /\ pos >= Len(src)) THEN [err |-> FALSE, data |-> <<>>]
    ELSE LET h == FrameHeaderAt(src, pos, magic)
             body  == pos + Len(magic) + 1
             avail == MIN(h.n, Len(src) - body)
             take  == IF want < 0 THEN avail ELSE MIN(want, avail)
             rest  == DecodeFrames(src, body + h.n,
                                   IF want < 0 THEN want ELSE want - take, magic)
         IN  IF h.kind # "ok" THEN [err |-> TRUE, data |-> <<>>]
             ELSE IF avail < h.n /\ (want < 0 \/ take < want)
                  THEN [err |-> TRUE, data |-> <<>>]
             ELSE IF rest.err THEN rest
             ELSE [err |-> FALSE, data |-> SubSeq(src, body + 1, body + take) \o rest.data]

\* ZSTD_decompressDCtx(dctx, dst, dstCapacity, src, srcSize): every frame of
\* src; an error when they do not fit in dst.  [err, data], Len(data) is
\* the value returned.
ZSTD_decompressDCtx(dstCapacity, src) ==
    LET r == DecodeFrames(src, 0, -1, ZSTD_MAGIC)
    IN  IF r.err \/ Len(r.data) > dstCapacity THEN [err |-> TRUE, data |-> <<>>] ELSE r

\* ZSTD_initDStream and the ZSTD_decompressStream loops that fill an output
\* of `size` bytes: [err, data]
ZSTD_decompressStream(size, src) == DecodeFrames(src, 0, size, ZSTD_MAGIC)

Lz4dctxInit == [stage |-> "header", left |-> 0]

\* One LZ4F_decompress call with room for dstSize bytes on the source from
\* 0-based position pos: [err, dctx, out, csize].  The call returns when
\* the frame ends, the room is used up or the source is.
LZ4F_decompress(dctx, dstSize, src, pos) ==
    LET Frame(h) ==
            LET hdr  == IF dctx.stage = "header" /\ h.kind = "ok"
                        THEN Len(LZ4_MAGIC) + 1 ELSE 0
                take == MIN(h.n, MIN(dstSize, Len(src) - pos - hdr))
            IN  IF dctx.stage = "broken" \/ h.kind = "bad"
                THEN [err |-> TRUE, dctx |-> [stage |-> "broken", left |-> 0],
                      out |-> <<>>, csize |-> 0]
                ELSE IF h.kind = "short"
                THEN [err |-> FALSE, dctx |-> dctx, out |-> <<>>, csize |-> 0]
                ELSE [err |-> FALSE,
                      dctx |-> IF take = h.n THEN Lz4dctxInit
                               ELSE [stage |-> "body", left |-> h.n - take],
                      out |-> SubSeq(src, pos + hdr + 1, pos + hdr + take),
                      csize |-> hdr + take]
    IN  Frame(IF dctx.stage = "header" THEN FrameHeaderAt(src, pos, LZ4_MAGIC)
              ELSE [kind |-> "ok", n |-> dctx.left])

\* do { LZ4F_decompress } while (offset < to_decompress), at least one call:
\* [status, dctx, out, pos]; status "hang" when a call makes no progress
\* and the loop goes on, for ever
RECURSIVE Lz4Loop(_, _, _, _, _)
Lz4Loop(dctx, src, pos, to_decompress, out) ==
    LET Call(r) ==
            IF r.err
            THEN [status |-> "err", dctx |-> r.dctx, out |-> out \o r.out, pos |-> pos]
            ELSE IF Len(out) + Len(r.out) >= to_decompress
            THEN [status |-> "ok", dctx |-> r.dctx, out |-> out \o r.out,
                  pos |-> pos + r.csize]
            ELSE IF r.csize = 0 /\ r.out = <<>> /\ r.dctx = dctx
            THEN [status |-> "hang", dctx |-> r.dctx, out |-> out \o r.out, pos |-> pos]
            ELSE Lz4Loop(r.dctx, src, pos + r.csize, to_decompress, out \o r.out)
    IN  Call(LZ4F_decompress(dctx, to_decompress - Len(out), src, pos))

----------------------------------------------------------------------------
(* Frame cache: the hash map in insertion order, least recently used first *)

NullCache == [capacity |-> 0, map |-> <<>>, size |-> 0, entries_memory |-> 0]
NullFrame == [data |-> <<>>, idx |-> 0, len |-> 0, null |-> TRUE]

zseek_cache_new(capacity) ==
    IF capacity = 0 THEN NullCache
    ELSE [capacity |-> capacity, map |-> <<>>, size |-> 0, entries_memory |-> 0]

CacheIndexOf(cache, frame_idx) ==
    IF \E k \in 1..Len(cache.map) : cache.map[k].idx = frame_idx
    THEN CHOOSE k \in 1..Len(cache.map) : cache.map[k].idx = frame_idx
    ELSE 0

RemoveAt(seq, k) == SubSeq(seq, 1, k - 1) \o SubSeq(seq, k + 1, Len(seq))

\* the entries of a cache, whatever their order
CachedFrames(cache) == {cache.map[k] : k \in 1..Len(cache.map)}

\* a find that leaves the hit item where it is
zseek_cache_find_in_place(cache, frame_idx) ==
    LET k == CacheIndexOf(cache, frame_idx)
    IN  IF cache = NullCache \/ k = 0 THEN [frame |-> NullFrame, cache |-> cache]
        ELSE [frame |-> cache.map[k], cache |-> cache]

\* [frame, cache]: a hit re-inserts the item, which makes it the last
zseek_cache_find(cache, frame_idx) ==
    LET k == CacheIndexOf(cache, frame_idx)
    IN  IF cache = NullCache \/ k = 0 THEN [frame |-> NullFrame, cache |-> cache]
        ELSE [frame |-> cache.map[k],
              cache |-> [cache EXCEPT !.map = Append(RemoveAt(@, k), cache.map[k])]]

zseek_cache_entries(cache) == IF cache = NullCache THEN 0 ELSE cache.size

\* an insert that evicts the most recent item of a full cache
zseek_cache_insert_evict_last(cache, frame) ==
    IF cache = NullCache \/ CacheIndexOf(cache, frame.idx) # 0
    THEN [ok |-> FALSE, cache |-> cache]
    ELSE IF cache.size = cache.capacity
    THEN [ok |-> TRUE,
          cache |-> [cache EXCEPT !.map = Append(SubSeq(@, 1, Len(@) - 1), frame),
                                  !.entries_memory = @ - cache.map[Len(cache.map)].len
                                                       + frame.len]]
    ELSE [ok |-> TRUE,
          cache |-> [cache EXCEPT !.map = Append(@, frame), !.size = @ + 1,
                                  !.entries_memory = @ + frame.len]]

\* an insert that overwrites the item of an index already present
zseek_cache_insert_overwrite(cache, frame) ==
    IF cache = NullCache THEN [ok |-> FALSE, cache |-> cache]
    ELSE IF CacheIndexOf(cache, frame.idx) # 0
    THEN [ok |-> TRUE,
          cache |-> [cache EXCEPT !.map[CacheIndexOf(cache, frame.idx)] = frame,
                                  !.entries_memory =
                                      @ - cache.map[CacheIndexOf(cache, frame.idx)].len
                                        + frame.len]]
    ELSE IF cache.size = cache.capacity
    THEN [ok |-> TRUE,
          cache |-> [cache EXCEPT !.map = Append(Tail(@), frame),
                                  !.entries_memory = @ - Head(cache.map).len + frame.len]]
    ELSE [ok |-> TRUE,
          cache |-> [cache EXCEPT !.map = Append(@, frame), !.size = @ + 1,
                                  !.entries_memory = @ + frame.len]]

\* [ok, cache]
zseek_cache_insert(cache, frame) ==
    IF cache = NullCache \/ CacheIndexOf(cache, frame.idx) # 0
    THEN [ok |-> FALSE, cache |-> cache]
    ELSE LET Evicted(c) ==
                 [ok |-> TRUE,
                  cache |-> [c EXCEPT !.map = Append(@, frame),
                                      !.size = @ + 1,
                                      !.entries_memory = @ + frame.len]]
         IN  Evicted(IF cache.size = cache.capacity
                     THEN [cache EXCEPT !.map = Tail(@),
                                        !.size = @ - 1,
                                        !.entries_memory = @ - Head(cache.map).len]
                     ELSE cache)

----------------------------------------------------------------------------
(* Reader *)

FailedReader == [state |-> "failed"]

zseek_reader_open_full_codec(type, f, cache_size, uninit) ==
    LET st == read_seek_table(f, uninit)
    IN  IF st = NoST THEN FailedReader
        ELSE [state |-> "open", type |-> type, st |-> st,
              cache |-> IF cache_size > 0 THEN zseek_cache_new(cache_size) ELSE NullCache,
              dctx_lz4 |-> Lz4dctxInit, pos |-> 0]

zseek_reader_open_full(f, cache_size, uninit) ==
    LET magic_le == PreadFile(f, 4, 0)
    IN  IF magic_le.n # 4 THEN FailedReader
        ELSE IF magic_le.data = ZSTD_MAGIC
             THEN zseek_reader_open_full_codec("ZSTD", f, cache_size, uninit)
        ELSE IF magic_le.data = LZ4_MAGIC
             THEN zseek_reader_open_full_codec("LZ4", f, cache_size, uninit)
        ELSE FailedReader

\* zseek_reader_stats: the fields that do not depend on the allocator
zseek_reader_stats(r) ==
    [frames |-> seek_table_entries(r.st),
     decompressed_size |-> seek_table_decompressed_size(r.st),
     cached_frames |-> zseek_cache_entries(r.cache)]

\* The pread operators give [ret, data, rd]: the value returned (-1 for an
\* error, Hang when the call never returns), the bytes put in buf and the
\* reader afterwards.  `junk` is the byte an allocation holds where nothing
\* was written.
Hang == -2

PreadResult(ret, data, r) == [ret |-> ret, data |-> data, rd |-> r]

\* the compressed bytes of a seek table entry, as read into cbuf
FetchFrame(r, f, frame_idx) ==
    PreadFile(f, frame_size_c(r.st, frame_idx), frame_offset_c(r.st, frame_idx))

zseek_pread_zstd_no_cache(r, f, count, offset) ==
    LET frame_idx == offset_to_frame_idx(r.st, offset)
        frame_csize == frame_size_c(r.st, frame_idx)
        cbuf == FetchFrame(r, f, frame_idx)
        offset_in_frame == offset - frame_offset_d(r.st, frame_idx)
        discard == ZSTD_decompressStream(offset_in_frame, cbuf.data)
        to_decompress == MIN(count, frame_size_d(r.st, frame_idx) - offset_in_frame)
        all == ZSTD_decompressStream(offset_in_frame + to_decompress, cbuf.data)
    IN  IF frame_idx = -1 THEN PreadResult(0, <<>>, r)
        ELSE IF cbuf.n # frame_csize THEN PreadResult(-1, <<>>, r)
        ELSE IF discard.err \/ all.err THEN PreadResult(-1, <<>>, r)
        ELSE PreadResult(to_decompress,
                SubSeq(all.data, offset_in_frame + 1, offset_in_frame + to_decompress), r)

\* a copy that gives count for the bytes copied, whatever the frame holds
CopyFromFrameNoMin(r, frame, frame_idx, count, offset) ==
    LET offset_in_frame == offset - frame_offset_d(r.st, frame_idx)
        to_copy == MIN(count, frame.len - offset_in_frame)
    IN  PreadResult(count,
            SubSeq(frame.data, offset_in_frame + 1, offset_in_frame + to_copy), r)

\* the copy out of a cached frame that ends the cached preads
CopyFromFrame(r, frame, frame_idx, count, offset) ==
    LET offset_in_frame == offset - frame_offset_d(r.st, frame_idx)
        to_copy == MIN(count, frame.len - offset_in_frame)
    IN  PreadResult(to_copy,
            SubSeq(frame.data, offset_in_frame + 1, offset_in_frame + to_copy), r)

\* a buffer of `size` bytes obtained from malloc, with `data` written at
\* its start
Malloced(size, data, junk) == data \o [i \in 1..(size - Len(data)) |-> junk]

\* zseek_pread_zstd from the zseek_cache_find it makes last on: `lookup`
\* is what that find gave
zseek_pread_zstd_after_find(r, f, count, offset, junk, lookup) ==
    LET frame_idx   == offset_to_frame_idx(r.st, offset)
        frame_csize == frame_size_c(r.st, frame_idx)
        frame_dsize == frame_size_d(r.st, frame_idx)
        Inserted(ins, frame) ==
            IF ~ins.ok THEN PreadResult(-1, <<>>, r)
            ELSE CopyFromFrame([r EXCEPT !.cache = ins.cache], frame,
                               frame_idx, count, offset)
        Cached(frame) == Inserted(zseek_cache_insert(r.cache, frame), frame)
        Decompressed(d) ==
            IF d.err THEN PreadResult(-1, <<>>, r)
            ELSE Cached([data |-> Malloced(frame_dsize, d.data, junk),
                         idx |-> frame_idx, len |-> frame_dsize, null |-> FALSE])
        Fetched(cbuf) ==
            IF cbuf.n # frame_csize THEN PreadResult(-1, <<>>, r)
            ELSE Decompressed(ZSTD_decompressDCtx(frame_dsize, cbuf.data))
        Found(found) ==
            IF ~found.frame.null
            THEN CopyFromFrame([r EXCEPT !.cache = found.cache], found.frame,
                               frame_idx, count, offset)
            ELSE Fetched(FetchFrame(r, f, frame_idx))
    IN  IF r.cache = NullCache THEN zseek_pread_zstd_no_cache(r, f, count, offset)
        ELSE IF frame_idx = -1 THEN PreadResult(0, <<>>, r)
        ELSE Found(lookup)

zseek_pread_zstd(r, f, count, offset, junk) ==
    zseek_pread_zstd_after_find(r, f, count, offset, junk,
        zseek_cache_find(r.cache, offset_to_frame_idx(r.st, offset)))

zseek_pread_lz4_no_cache(r, f, count, offset) ==
    LET frame_idx   == offset_to_frame_idx(r.st, offset)
        frame_csize == frame_size_c(r.st, frame_idx)
        offset_in_frame == offset - frame_offset_d(r.st, frame_idx)
        to_decompress == MIN(count, frame_size_d(r.st, frame_idx) - offset_in_frame)
        User(user) ==
            IF user.status = "err"
            THEN PreadResult(-1, user.out, [r EXCEPT !.dctx_lz4 = user.dctx])
            ELSE IF user.status = "hang"
            THEN PreadResult(Hang, user.out, [r EXCEPT !.dctx_lz4 = user.dctx])
            ELSE PreadResult(to_decompress, user.out,
                    [r EXCEPT !.dctx_lz4 = IF user.pos < frame_csize THEN Lz4dctxInit
                                           ELSE user.dctx])
        Discarded(skip, cbuf) ==
            IF skip.status = "err"
            THEN PreadResult(-1, <<>>, [r EXCEPT !.dctx_lz4 = skip.dctx])
            ELSE IF skip.status = "hang"
            THEN PreadResult(Hang, <<>>, [r EXCEPT !.dctx_lz4 = skip.dctx])
            ELSE User(Lz4Loop(skip.dctx, cbuf.data, skip.pos, to_decompress, <<>>))
        Fetched(cbuf) ==
            IF cbuf.n # frame_csize THEN PreadResult(-1, <<>>, r)
            ELSE Discarded(IF offset_in_frame > 0
                           THEN Lz4Loop(r.dctx_lz4, cbuf.data, 0, offset_in_frame, <<>>)
                           ELSE [status |-> "ok", dctx |-> r.dctx_lz4,
                                 out |-> <<>>, pos |-> 0],
                           cbuf)
    IN  IF frame_idx = -1 THEN PreadResult(0, <<>>, r)
        ELSE Fetched(FetchFrame(r, f, frame_idx))

\* zseek_pread_lz4 from the zseek_cache_find it makes last on
zseek_pread_lz4_after_find(r, f, count, offset, junk, lookup) ==
    LET frame_idx   == offset_to_frame_idx(r.st, offset)
        frame_csize == frame_size_c(r.st, frame_idx)
        frame_dsize == frame_size_d(r.st, frame_idx)
        Inserted(ins, frame, r1) ==
            IF ~ins.ok THEN PreadResult(-1, <<>>, r1)
            ELSE CopyFromFrame([r1 EXCEPT !.cache = ins.cache], frame,
                               frame_idx, count, offset)
        Cached(frame, r1) == Inserted(zseek_cache_insert(r.cache, frame), frame, r1)
        Decompressed(d) ==
            IF d.status = "err"
            THEN PreadResult(-1, <<>>, [r EXCEPT !.dctx_lz4 = d.dctx])
            ELSE IF d.status = "hang"
            THEN PreadResult(Hang, <<>>, [r EXCEPT !.dctx_lz4 = d.dctx])
            ELSE Cached([data |-> Malloced(frame_dsize, d.out, junk),
                         idx |-> frame_idx, len |-> frame_dsize, null |-> FALSE],
                        [r EXCEPT !.dctx_lz4 = d.dctx])
        Fetched(cbuf) ==
            IF cbuf.n # frame_csize THEN PreadResult(-1, <<>>, r)
            ELSE Decompressed(Lz4Loop(r.dctx_lz4, cbuf.data, 0, frame_dsize, <<>>))
        Found(found) ==
            IF ~found.frame.null
            THEN CopyFromFrame([r EXCEPT !.cache = found.cache], found.frame,
                               frame_idx, count, offset)
            ELSE Fetched(FetchFrame(r, f, frame_idx))
    IN  IF r.cache = NullCache THEN zseek_pread_lz4_no_cache(r, f, count, offset)
        ELSE IF frame_idx = -1 THEN PreadResult(0, <<>>, r)
        ELSE Found(lookup)

zseek_pread_lz4(r, f, count, offset, junk) ==
    zseek_pread_lz4_after_find(r, f, count, offset, junk,
        zseek_cache_find(r.cache, offset_to_frame_idx(r.st, offset)))

\* a pread that, like zseek_read, leaves the offset in the read cursor
zseek_pread_moving_pos(r, f, count, offset, junk) ==
    [(IF r.type = "ZSTD" THEN zseek_pread_zstd(r, f, count, offset, junk)
      ELSE zseek_pread_lz4(r, f, count, offset, junk)) EXCEPT !.rd.pos = offset]

zseek_pread(r, f, count, offset, junk) ==
    IF r.type = "ZSTD" THEN zseek_pread_zstd(r, f, count, offset, junk)
    ELSE zseek_pread_lz4(r, f, count, offset, junk)

\* The same calls with the library calls they make, in order, and with the
\* failures that do not come from the bytes of the source: `flt` names the
\* call that fails ("rdlock", "wrlock", "resize" of cbuf, "malloc" of dbuf,
\* "insert" for the malloc of zseek_cache_insert), "none" when none does.
\* [ret, data, rd, ev]; ev ends before the unlock when the call hangs.
PreadPath(ret, data, r, ev) == [ret |-> ret, data |-> data, rd |-> r, ev |-> ev]

\* a failure exit that leaves without giving the lock back
fail_holding_lock(ev) == ev

\* a failure exit that leaves the decompressed buffer allocated
fail_w_dbuf_not_freed(ev) == ev

\* the exits of the pread functions
fail_w_lock(ev) == Append(ev, "unlock")
fail_w_dbuf(ev) == Append(ev, "free")

\* a test that lets a short read through
FrameReadNotFailed(cbuf, frame_csize) == cbuf.n >= 0

\* _read == (ssize_t)frame_csize
FrameRead(cbuf, frame_csize) == cbuf.n = frame_csize

zseek_pread_no_cache_path(r, f, count, offset, flt) ==
    LET frame_idx   == offset_to_frame_idx(r.st, offset)
        frame_csize == frame_size_c(r.st, frame_idx)
        Decompressed(res) ==
            PreadPath(res.ret, res.data, res.rd,
                IF res.ret = Hang THEN <<"wrlock", "pread", "decompress">>
                ELSE IF res.ret = -1
                THEN fail_w_lock(<<"wrlock", "pread", "decompress">>)
                ELSE <<"wrlock", "pread", "decompress", "unlock">>)
        Fetched(cbuf) ==
            IF ~FrameRead(cbuf, frame_csize)
            THEN PreadPath(-1, <<>>, r, fail_w_lock(<<"wrlock", "pread">>))
            ELSE Decompressed(zseek_pread(r, f, count, offset, 0))
    IN  IF frame_idx = -1 THEN PreadPath(0, <<>>, r, <<>>)
        ELSE IF flt = "wrlock" THEN PreadPath(-1, <<>>, r, <<"wrlock_failed">>)
        ELSE IF flt = "resize"
        THEN PreadPath(-1, <<>>, r, fail_w_lock(<<"wrlock", "resize_failed">>))
        ELSE Fetched(FetchFrame(r, f, frame_idx))

zseek_pread_cached_path(r, f, count, offset, junk, flt) ==
    LET frame_idx   == offset_to_frame_idx(r.st, offset)
        frame_csize == frame_size_c(r.st, frame_idx)
        Locked(ev) == <<"rdlock", "find", "unlock", "wrlock", "find">> \o ev
        Decompressed(res) ==
            IF res.ret = Hang
            THEN PreadPath(res.ret, res.data, res.rd,
                           Locked(<<"pread", "malloc", "decompress">>))
            ELSE IF res.ret = -1
            THEN PreadPath(-1, <<>>, res.rd,
                    fail_w_lock(fail_w_dbuf(Locked(<<"pread", "malloc", "decompress">>))))
            ELSE IF flt = "insert" /\ r.cache.size < r.cache.capacity
            THEN PreadPath(-1, <<>>, [res.rd EXCEPT !.cache = r.cache],
                    fail_w_lock(fail_w_dbuf(
                        Locked(<<"pread", "malloc", "decompress", "insert_failed">>))))
            ELSE PreadPath(res.ret, res.data, res.rd,
                    Locked(<<"pread", "malloc", "decompress", "insert", "unlock">>))
        Fetched(cbuf) ==
            IF ~FrameRead(cbuf, frame_csize)
            THEN PreadPath(-1, <<>>, r, fail_w_lock(Locked(<<"pread">>)))
            ELSE IF flt = "malloc"
            THEN PreadPath(-1, <<>>, r, fail_w_lock(Locked(<<"pread", "malloc_failed">>)))
            ELSE Decompressed(zseek_pread(r, f, count, offset, junk))
        Hit(res) == PreadPath(res.ret, res.data, res.rd, <<"rdlock", "find", "unlock">>)
        Found(found) ==
            IF ~found.frame.null THEN Hit(zseek_pread(r, f, count, offset, junk))
            ELSE IF flt = "wrlock"
            THEN PreadPath(-1, <<>>, r, <<"rdlock", "find", "unlock", "wrlock_failed">>)
            ELSE IF flt = "resize"
            THEN PreadPath(-1, <<>>, r, fail_w_lock(Locked(<<"resize_failed">>)))
            ELSE Fetched(FetchFrame(r, f, frame_idx))
    IN  IF frame_idx = -1 THEN PreadPath(0, <<>>, r, <<>>)
        ELSE IF flt = "rdlock" THEN PreadPath(-1, <<>>, r, <<"rdlock_failed">>)
        ELSE Found(zseek_cache_find(r.cache, frame_idx))

\* a dispatch that takes the cached path whatever the reader has
zseek_pread_path_with_cache(r, f, count, offset, junk, flt) ==
    zseek_pread_cached_path(r, f, count, offset, junk, flt)

\* if (!reader->cache) return zseek_pread_*_no_cache(...)
zseek_pread_path(r, f, count, offset, junk, flt) ==
    IF r.cache = NullCache THEN zseek_pread_no_cache_path(r, f, count, offset, flt)
    ELSE zseek_pread_cached_path(r, f, count, offset, junk, flt)

\* a read that moves the cursor by the count asked for
zseek_read_whole_count(r, f, count, junk, flt) ==
    LET Moved(res) ==
            IF res.ret > 0 THEN [res EXCEPT !.rd.pos = @ + count] ELSE res
    IN  Moved(zseek_pread_path(r, f, count, r.pos, junk, flt))

\* ret = zseek_pread(reader, buf, count, reader->pos, ...);
\* if (ret > 0) reader->pos += ret;
zseek_read(r, f, count, junk, flt) ==
    LET Moved(res) ==
            IF res.ret > 0 THEN [res EXCEPT !.rd.pos = @ + res.ret] ELSE res
    IN  Moved(zseek_pread_path(r, f, count, r.pos, junk, flt))

----------------------------------------------------------------------------
(* Values of the variables a specification does not use *)

NoBench  == [phase |-> "none"]
NoWriter == [state |-> "none"]
NoReader == [state |-> "none"]
NoCall   == [op |-> "none"]
NoLoop   == [active |-> FALSE]
NoThreads == [active |-> FALSE]
NoCacheBench == [active |-> FALSE]
GoodSource == [kind |-> "good", at |-> 0]

----------------------------------------------------------------------------
(* Spec: a writer fed by zseek_write calls and closed, then a reader opened *)
(* on the archive and a caller reading it back with the loop of            *)
(* test/example.c.  Next to the reader runs a reader of the same archive   *)
(* opened with the cache disabled, given the same calls.                   *)

MaxWrites == 4         \* zseek_write calls per writer
MaxWriteLen == 2       \* bytes per zseek_write call
MaxMinFrameSize == 2   \* min_frame_size of a writer
MaxCacheSize == 1      \* cache_size of a reader
MaxReadOffset == 1     \* offset a read loop starts from

\* (type, mt) of the writers: zstd, zstd with several workers, lz4
WriterKinds == { <<"ZSTD", FALSE>>, <<"ZSTD", TRUE>>, <<"LZ4", FALSE>> }

\* what an allocation may hold where nothing was written
UninitBytes == {0, 255}

Init ==
    /\ \E k \in WriterKinds, m \in 0..MaxMinFrameSize :
         w = zseek_writer_open_full(k[1], k[2], m)
    /\ file = <<>> /\ accepted = <<>>
    /\ rd = NoReader
    /\ last = [op |-> "open", calls |-> 0]
    /\ acc = NoLoop
    /\ tl = NoBench
    /\ cb = NoCacheBench
    /\ io = GoodSource
    /\ th = NoThreads

Write ==
    /\ w.state = "open"
    /\ last.calls < MaxWrites
    /\ \E len \in 0..MaxWriteLen :
         \E x \in {zseek_write([w |-> w, file |-> file],
                                InputBytes(Len(accepted), len))} :
             /\ w' = x.w
             /\ file' = x.file
             /\ accepted' = accepted \o InputBytes(Len(accepted), len)
             /\ last' = [op |-> "write", calls |-> last.calls + 1]
    /\ UNCHANGED <<io, cb, th, rd, acc, tl>>

Close ==
    /\ w.state = "open"
    /\ \E x \in {zseek_writer_close([w |-> w, file |-> file])} :
         w' = x.w /\ file' = x.file
    /\ last' = [op |-> "close", calls |-> last.calls,
                stats |-> zseek_writer_stats(w)]
    /\ UNCHANGED <<io, cb, th, accepted, rd, acc, tl>>

\* zseek_reader_open on the closed archive
ReaderOpen ==
    /\ w.state = "closed"
    /\ rd = NoReader
    /\ \E cache_size \in 0..MaxCacheSize, u \in UninitWords :
         /\ rd' = zseek_reader_open_full(file, cache_size, u)
         /\ last' = [op |-> "reader_open",
                     nc |-> zseek_reader_open_full(file, 0, u),
                     writer_stats |-> last.stats]
    /\ UNCHANGED <<io, cb, th, w, file, accepted, acc, tl>>

\* the caller sets out to read `want` bytes from offset `off`
LoopStart ==
    /\ rd # NoReader /\ rd.state = "open"
    /\ acc = NoLoop
    /\ \E off \in 0..MIN(MaxReadOffset, Len(accepted)) :
         acc' = [active |-> TRUE, start |-> off, want |-> Len(accepted) - off,
                 offset |-> off, to_read |-> Len(accepted) - off,
                 data |-> <<>>, calls |-> 0,
                 status |-> IF Len(accepted) - off > 0 THEN "run" ELSE "done"]
    /\ UNCHANGED <<io, cb, th, w, file, accepted, rd, last, tl>>

\* a call that never returns leaves its reader stuck in it
AfterCall(res) == IF res.ret = Hang THEN [res.rd EXCEPT !.state = "hung"] ELSE res.rd

\* the same call on the reader opened without cache (stuck for good once
\* a call of its own did not return)
TwinPread(nc, f, count, offset, junk) ==
    IF nc.state = "hung" THEN PreadResult(Hang, <<>>, nc)
    ELSE zseek_pread(nc, f, count, offset, junk)

\* what one zseek_pread call leaves behind: the call, its result, and the
\* result of the same call on the reader without cache
PreadCall(count, offset, res, ncres) ==
    [op |-> "pread", count |-> count, offset |-> offset,
     ret |-> res.ret, data |-> res.data, before |-> rd,
     nc |-> AfterCall(ncres), nc_ret |-> ncres.ret, nc_data |-> ncres.data]

\* one turn of the loop: dread = zseek_pread(reader, buf, to_read, offset)
LoopStep ==
    /\ acc # NoLoop /\ acc.status = "run"
    /\ \E junk \in UninitBytes :
         \E res   \in {zseek_pread(rd, file, acc.to_read, acc.offset, junk)},
            ncres \in {TwinPread(last.nc, file, acc.to_read, acc.offset, junk)} :
         LET left  == acc.to_read - res.ret
         IN  /\ rd' = AfterCall(res)
             /\ last' = PreadCall(acc.to_read, acc.offset, res, ncres)
             /\ acc' = IF res.ret = Hang
                       THEN [acc EXCEPT !.status = "hang", !.calls = @ + 1]
                       ELSE IF res.ret = -1
                       THEN [acc EXCEPT !.status = "error", !.calls = @ + 1]
                       ELSE [acc EXCEPT !.to_read = left, !.calls = @ + 1,
                                        !.offset = @ + res.ret,
                                        !.data = @ \o res.data,
                                        !.status = IF left = 0 THEN "done"
                                                   ELSE IF res.ret = 0 THEN "eof"
                                                   ELSE "run"]
    /\ UNCHANGED <<io, cb, th, w, file, accepted, tl>>

Next == Write \/ Close \/ ReaderOpen \/ LoopStart \/ LoopStep

Spec == Init /\ [][Next]_vars

\* the read loop of the caller has come to its end, one way or another
LoopOver == acc # NoLoop /\ acc.status # "run"

\* C1 (as stated): whatever the writes, after close the loop that reads
\* |B| bytes from offset 0 ends with exactly the bytes accepted.
C1_RoundTrip ==
    (w.state = "closed" /\ LoopOver /\ acc.start = 0) =>
        (acc.status = "done" /\ acc.data = accepted)

\* C2 (as stated): the consecutive preads from any offset off, for
\* min(len, |B| - off) bytes in all, give B[off .. off + min(len, |B| - off)).
C2_RandomAccess ==
    LoopOver =>
        /\ acc.status = "done"
        /\ Len(acc.data) = acc.want
        /\ \A i \in 1..acc.want : acc.data[i] = accepted[acc.start + i]

\* the frame bytes in the sink before the trailer
FrameBytesEmitted == Len(file) - ZSTD_seekable_seekTableSize(w.fl)

LogSum(fl, field) == SumSeq([i \in 1..Len(fl.entries) |-> fl.entries[i][field]])

\* C5 (as stated): after close the trailer accounts for every frame: its
\* dSize sum to the bytes accepted, its cSize to the frame bytes emitted.
C5_TrailerAccounts ==
    w.state = "closed" =>
        /\ LogSum(w.fl, "dSize") = Len(accepted)
        /\ LogSum(w.fl, "cSize") = FrameBytesEmitted

\* C8 (as stated): the archive of a writer closed without a byte written
\* opens, has decompressed size 0, and pread(buf, 1, 0) returns 0 on it.
C8_EmptyArchive ==
    (w.state = "closed" /\ accepted = <<>> /\ w.total_cm = 0 /\ rd # NoReader) =>
        /\ rd.state = "open"
        /\ seek_table_decompressed_size(rd.st) = 0
        /\ \A junk \in UninitBytes : zseek_pread(rd, file, 1, 0, junk).ret = 0

\* C23 (as stated): the archive of an LZ4 writer, whatever calls it took,
\* opens as LZ4 without a hint, and zseek_reader_stats gives the number of
\* frames that zseek_writer_stats gave on the writer before it was closed.
C23_Lz4Autodetect ==
    (last.op = "reader_open" /\ w.type = "LZ4") =>
        /\ rd.state = "open"
        /\ rd.type = "LZ4"
        /\ zseek_reader_stats(rd).frames = last.writer_stats.frames

\* the decompressed bytes of the frames of an archive, in order, up to the
\* trailer
RECURSIVE FrameBytes(_, _)
FrameBytes(src, pos) ==
    IF pos + 5 > Len(src) THEN <<>>
    ELSE IF SubSeq(src, pos + 1, pos + 4) \notin {ZSTD_MAGIC, LZ4_MAGIC} THEN <<>>
    ELSE SubSeq(src, pos + 6, pos + 5 + src[pos + 5])
             \o FrameBytes(src, pos + 5 + src[pos + 5])

\* C29 (as stated): in buffered mode (lz4, zstd without workers) a block
\* goes to the compressor directly only when no bytes are pending; with
\* bytes pending it is appended after them.  So at any time the bytes of
\* the frames in the sink, followed by the pending bytes, are the bytes
\* accepted so far, in the order of the calls.
C29_WriteOrder ==
    (w.state = "open" /\ ~w.mt) => FrameBytes(file, 0) \o w.ubuf = accepted

\* the sum of a field of the entries the writer has logged
LoggedBytes(field) ==
    SumSeq([k \in 1..Len(w.fl.entries) |-> w.fl.entries[k][field]])

\* C30 (as stated): after every successful write, in every mode, the
\* decompressed sizes of the logged entries plus ste_uc plus frame_uc make
\* the number of bytes accepted; the compressed sizes of the logged entries
\* plus ste_cm plus frame_cm make the number of bytes in the sink; and the
\* input buffer holds exactly the frame_uc pending bytes.
C30_Accounting ==
    w.state = "open" =>
        /\ LoggedBytes("dSize") + w.ste_uc + w.frame_uc = Len(accepted)
        /\ LoggedBytes("cSize") + w.ste_cm + w.frame_cm = Len(file)
        /\ ~w.mt => Len(w.ubuf) = w.frame_uc

\* the decompressed sizes of the frames of an archive, in order, up to the
\* trailer
RECURSIVE FrameSizes(_, _)
FrameSizes(src, pos) ==
    IF pos + 5 > Len(src) THEN <<>>
    ELSE IF SubSeq(src, pos + 1, pos + 4) \notin {ZSTD_MAGIC, LZ4_MAGIC} THEN <<>>
    ELSE <<src[pos + 5]>> \o FrameSizes(src, pos + 5 + src[pos + 5])

\* C20: whatever the calls and the kind of the writer (zstd buffered or
\* direct, zstd with several workers, lz4), every frame in the sink but
\* the last holds at least min_frame_size decompressed bytes.
C20_MinFrameSize ==
    w.state \in {"open", "closed"} =>
        \A k \in 1..(Len(FrameSizes(file, 0)) - 1) :
            FrameSizes(file, 0)[k] >= w.min_frame_size

\* a closed archive of three frames, the last one short of min_frame_size
\* and made by close from buffered bytes
C20_Witness ==
    /\ w.state = "closed"
    /\ w.min_frame_size = MaxMinFrameSize
    /\ Len(FrameSizes(file, 0)) = 3
    /\ FrameSizes(file, 0)[3] < w.min_frame_size
    /\ FrameSizes(file, 0)[1] > w.min_frame_size

----------------------------------------------------------------------------
(* SpecR: a reader and its caller on the archives the writer produces.     *)
(* An archive is what a writer leaves after a script of zseek_write calls  *)
(* and zseek_writer_close, with min_frame_size MaxMinFrameSize: a run of   *)
(* calls of MaxWriteLen bytes followed by a few calls of other lengths,    *)
(* which gives archives of one and of two seek table entries, with and     *)
(* without bytes buffered when a frame ends.                               *)

MaxTail == 3           \* calls that follow the run of a script
MaxCount == 2          \* count of a single zseek_pread call

\* the lengths of the calls that follow the run
TailPattern == <<1, MaxWriteLen, 1, MaxWriteLen>>

ScriptRuns == {0, 1, DEFAULT_FRAMES_PER_STE - 1, DEFAULT_FRAMES_PER_STE}

Scripts ==
    { [i \in 1..run |-> MaxWriteLen] \o SubSeq(TailPattern, 1, t) :
        run \in ScriptRuns, t \in 0..MaxTail }

\* with min_frame_size 0 every call ends a frame, one of no bytes when the
\* call has none: a seek table entry of ten empty frames, ahead of or
\* behind an entry of ten frames of MaxWriteLen bytes
EmptyScripts ==
    LET empty == [i \in 1..DEFAULT_FRAMES_PER_STE |-> 0]
        full  == [i \in 1..DEFAULT_FRAMES_PER_STE |-> MaxWriteLen]
    IN  {empty \o full, full \o empty}

\* [script, min_frame_size]
Archives ==
    [script : Scripts, min_frame_size : {MaxMinFrameSize}]
        \cup [script : EmptyScripts, min_frame_size : {0}]

\* the writer and its sink after the calls of a script
RECURSIVE RunScript(_, _, _)
RunScript(x, script, done) ==
    LET Then(x1) == IF x1.w.state = "open"
                    THEN RunScript(x1, Tail(script), done + Head(script))
                    ELSE x1
    IN  IF script = <<>> THEN x
        ELSE Then(zseek_write(x, InputBytes(done, Head(script))))

InitR ==
    /\ \E k \in WriterKinds, a \in Archives :
         \E fed \in {RunScript([w |-> zseek_writer_open_full(k[1], k[2], a.min_frame_size),
                                file |-> <<>>], a.script, 0)} :
             \E x \in {zseek_writer_close(fed)} :
                 /\ w = x.w
                 /\ file = x.file
                 /\ accepted = InputBytes(0, SumSeq(a.script))
                 /\ last = [op |-> "close", calls |-> 0,
                            stats |-> zseek_writer_stats(fed.w)]
    /\ rd = NoReader
    /\ acc = NoLoop
    /\ tl = NoBench
    /\ cb = NoCacheBench
    /\ io = GoodSource
    /\ th = NoThreads

\* the offsets a caller tries: around the start of every seek table entry
\* and the end of the archive
PreadOffsets(st) == LookupOffsets(st) \cup {0, 1}

PreadCounts(st) == 0..MaxCount \cup {seek_table_decompressed_size(st)}

\* one zseek_pread(reader, buf, count, offset) call outside a loop
Pread ==
    /\ rd # NoReader /\ rd.state = "open"
    /\ acc = NoLoop
    /\ \E count \in PreadCounts(rd.st), offset \in PreadOffsets(rd.st),
          junk \in UninitBytes :
         \E res   \in {zseek_pread(rd, file, count, offset, junk)},
            ncres \in {TwinPread(last.nc, file, count, offset, junk)} :
             /\ rd' = AfterCall(res)
             /\ last' = PreadCall(count, offset, res, ncres)
    /\ UNCHANGED <<io, cb, th, w, file, accepted, acc, tl>>

NextR == ReaderOpen \/ Pread \/ LoopStart \/ LoopStep

SpecR == InitR /\ [][NextR]_vars

\* C39 (as stated): in the seek table that the reader parses from an
\* archive of the writer, zero-length writes and min_frame_size 0 included,
\* every entry has a compressed and a decompressed size above zero, so
\* that both offset sequences grow strictly, and the last offsets are the
\* sums of the sizes.
C39_OffsetsIncrease ==
    (rd # NoReader /\ rd.state = "open") =>
        /\ \A i \in 0..(seek_table_entries(rd.st) - 1) :
              /\ frame_offset_c(rd.st, i) < frame_offset_c(rd.st, i + 1)
              /\ frame_offset_d(rd.st, i) < frame_offset_d(rd.st, i + 1)
        /\ frame_offset_c(rd.st, seek_table_entries(rd.st)) =
              SumSeq([i \in 1..seek_table_entries(rd.st) |-> frame_size_c(rd.st, i - 1)])
        /\ frame_offset_d(rd.st, seek_table_entries(rd.st)) =
              SumSeq([i \in 1..seek_table_entries(rd.st) |-> frame_size_d(rd.st, i - 1)])

\* C3 (as stated): call by call, a reader returns the byte count and the
\* bytes that a reader of the same archive opened without cache returns.
C3_CacheEquivalence ==
    last.op = "pread" => (last.ret = last.nc_ret /\ last.data = last.nc_data)

\* C6: a pread at an offset at or past the decompressed size returns 0,
\* not an error, and leaves the reader (cache, codec state) as it was.
C6_OutOfRange ==
    (last.op = "pread"
        /\ last.offset >= seek_table_decompressed_size(last.before.st)) =>
            /\ last.ret = 0
            /\ last.data = <<>>
            /\ rd = last.before

\* a pread at the decompressed size D and one at D + 1, on a reader whose
\* cache holds a frame
C6_Witness ==
    /\ last.op = "pread"
    /\ last.offset = seek_table_decompressed_size(rd.st) + 1
    /\ last.count > 0
    /\ last.ret = 0
    /\ rd.cache # NullCache /\ Len(rd.cache.map) > 0
    /\ rd.st.tableLen = 2

\* the bytes the located seek table entry still holds from the offset on
LeftInFrame(st, offset) ==
    LET frame_idx == offset_to_frame_idx(st, offset)
    IN  frame_size_d(st, frame_idx) - (offset - frame_offset_d(st, frame_idx))

----------------------------------------------------------------------------
(* Threads sharing one reader: zseek_pread called from several threads on an
   archive of two seek table entries.  A call is cut at the points where the
   code takes or gives back reader->lock, and zseek_cache_find is cut in two
   because it runs under the shared lock. *)

NumThreads == 2
MaxCallsPerThread == 2

Threads == 1..NumThreads

\* ten frames fill the first seek table entry, one more byte the second
SharedScript == [i \in 1..DEFAULT_FRAMES_PER_STE |-> MaxWriteLen] \o <<1>>

IdleThread == [pc |-> "idle", count |-> 0, offset |-> 0, frame_idx |-> -1,
               hit |-> FALSE, raced |-> FALSE, frame |-> NullFrame,
               fetched |-> FALSE, ret |-> 0, data |-> <<>>, calls |-> 0]

InitMT ==
    /\ \E k \in WriterKinds, cache_size \in 0..MaxCacheSize, u \in UninitWords :
         \E x \in {zseek_writer_close(
                    RunScript([w |-> zseek_writer_open_full(k[1], k[2], MaxMinFrameSize),
                               file |-> <<>>], SharedScript, 0))} :
             /\ w = x.w
             /\ file = x.file
             /\ accepted = InputBytes(0, SumSeq(SharedScript))
             /\ rd = zseek_reader_open_full(x.file, cache_size, u)
             /\ last = [op |-> "reader_open", single |-> rd]
    /\ th = [active |-> TRUE, readers |-> {}, writer |-> 0, finding |-> {},
             aborted |-> FALSE, t |-> [i \in Threads |-> IdleThread]]
    /\ acc = NoLoop
    /\ tl = NoBench
    /\ cb = NoCacheBench
    /\ io = GoodSource

\* what a find that raced with a HASH_REPLACE of another thread can come to:
\* the item, no item (the table was unlinked or freed under the walk), an
\* item read through a stale table pointer, or the failed assert
RaceOutcomes == {"hit", "miss", "wild", "abort"}

WildFrame(r, frame_idx, junk) ==
    [data |-> [i \in 1..frame_size_d(r.st, frame_idx) |-> junk],
     idx |-> frame_idx, len |-> frame_size_d(r.st, frame_idx), null |-> FALSE]

\* the offsets the threads read at: the start of every seek table entry and
\* the end of the archive
SharedOffsets(st) == {frame_offset_d(st, i) : i \in 0..seek_table_entries(st)}

Running(t) == th.active /\ ~th.aborted /\ rd.state = "open"

\* a thread that has the exclusive lock and goes on to fetch without
\* looking into the cache again
zseek_cache_find_skipped(cache, frame_idx) == [frame |-> NullFrame, cache |-> cache]

\* frame = zseek_cache_find(reader->cache, frame_idx) once the exclusive
\* lock is held
zseek_cache_find_again(cache, frame_idx) ==
    IF cache = NullCache THEN [frame |-> NullFrame, cache |-> cache]
    ELSE zseek_cache_find(cache, frame_idx)

\* zseek_pread from pthread_rwlock_wrlock on
zseek_pread_locked(r, f, count, offset, junk) ==
    IF r.type = "ZSTD"
    THEN zseek_pread_zstd_after_find(r, f, count, offset, junk,
             zseek_cache_find_again(r.cache, offset_to_frame_idx(r.st, offset)))
    ELSE zseek_pread_lz4_after_find(r, f, count, offset, junk,
             zseek_cache_find_again(r.cache, offset_to_frame_idx(r.st, offset)))

\* if (!frame.data) after that find: the thread reads the frame from the
\* source, decompresses it and calls zseek_cache_insert
Fetches(r, frame_idx) ==
    r.cache # NullCache /\ zseek_cache_find_again(r.cache, frame_idx).frame.null

\* entry of zseek_pread: the seek table lookup, made without the lock
TCall(t) ==
    /\ Running(t)
    /\ th.t[t].pc = "idle" /\ th.t[t].calls < MaxCallsPerThread
    /\ \E count \in {MaxCount}, offset \in SharedOffsets(rd.st) :
         LET frame_idx == offset_to_frame_idx(rd.st, offset)
             call == [th.t[t] EXCEPT !.count = count, !.offset = offset,
                                     !.frame_idx = frame_idx]
         IN  th' = [th EXCEPT !.t[t] =
                      IF frame_idx = -1 THEN [call EXCEPT !.pc = "done"]
                      ELSE IF rd.cache = NullCache THEN [call EXCEPT !.pc = "wrlock"]
                      ELSE [call EXCEPT !.pc = "rdlock"]]
    /\ UNCHANGED <<io, cb, tl, w, file, accepted, rd, last, acc>>

\* a thread that goes on to zseek_cache_find without taking the shared lock
TRdLock_not_taken(t) ==
    /\ Running(t)
    /\ th.t[t].pc = "rdlock"
    /\ th' = [th EXCEPT !.t[t].pc = "find"]
    /\ UNCHANGED <<io, cb, tl, w, file, accepted, rd, last, acc>>

\* pthread_rwlock_rdlock
TRdLock(t) ==
    /\ Running(t)
    /\ th.t[t].pc = "rdlock"
    /\ th.writer = 0
    /\ th' = [th EXCEPT !.readers = @ \cup {t}, !.t[t].pc = "find"]
    /\ UNCHANGED <<io, cb, tl, w, file, accepted, rd, last, acc>>

\* zseek_cache_find under the shared lock, HASH_FIND: two finds that overlap
\* race when either of them goes on to HASH_REPLACE
TFindBegin(t) ==
    /\ Running(t)
    /\ th.t[t].pc = "find"
    /\ LET hit == CacheIndexOf(rd.cache, th.t[t].frame_idx) # 0
           clash(u) == u \in th.finding /\ (hit \/ th.t[u].hit)
       IN  th' = [th EXCEPT
                    !.finding = @ \cup {t},
                    !.t = [u \in Threads |->
                             IF u = t
                             THEN [th.t[t] EXCEPT !.pc = "finding", !.hit = hit,
                                      !.raced = \E v \in Threads : clash(v)]
                             ELSE IF clash(u) THEN [th.t[u] EXCEPT !.raced = TRUE]
                             ELSE th.t[u]]]
    /\ UNCHANGED <<io, cb, tl, w, file, accepted, rd, last, acc>>

\* zseek_cache_find under the shared lock, HASH_REPLACE and return
TFindEnd(t) ==
    /\ Running(t)
    /\ th.t[t].pc = "finding"
    /\ LET found == zseek_cache_find(rd.cache, th.t[t].frame_idx)
           goes(frame) == [th EXCEPT !.finding = @ \ {t},
                                     !.t[t].frame = frame,
                                     !.t[t].pc = IF frame.null THEN "upgrade"
                                                 ELSE "copy"]
       IN  IF ~th.t[t].raced
           THEN /\ rd' = [rd EXCEPT !.cache = found.cache]
                /\ th' = goes(found.frame)
           ELSE \E o \in RaceOutcomes, junk \in UninitBytes :
                  \/ /\ o = "hit"
                     /\ rd' = [rd EXCEPT !.cache = found.cache]
                     /\ th' = goes(found.frame)
                  \/ /\ o = "miss"
                     /\ rd' = rd
                     /\ th' = goes(NullFrame)
                  \/ /\ o = "wild"
                     /\ rd' = rd
                     /\ th' = goes(WildFrame(rd, th.t[t].frame_idx, junk))
                  \/ /\ o = "abort"
                     /\ rd' = rd
                     /\ th' = [th EXCEPT !.aborted = TRUE]
    /\ UNCHANGED <<io, cb, tl, w, file, accepted, last, acc>>

\* the hit: memcpy out of the frame and unlock
TCopy(t) ==
    /\ Running(t)
    /\ th.t[t].pc = "copy"
    /\ LET res == CopyFromFrame(rd, th.t[t].frame, th.t[t].frame_idx,
                                th.t[t].count, th.t[t].offset)
       IN  th' = [th EXCEPT !.readers = @ \ {t}, !.t[t].pc = "done",
                            !.t[t].ret = res.ret, !.t[t].data = res.data]
    /\ UNCHANGED <<io, cb, tl, w, file, accepted, rd, last, acc>>

\* the miss: unlock to upgrade
TUpgrade(t) ==
    /\ Running(t)
    /\ th.t[t].pc = "upgrade"
    /\ th' = [th EXCEPT !.readers = @ \ {t}, !.t[t].pc = "wrlock"]
    /\ UNCHANGED <<io, cb, tl, w, file, accepted, rd, last, acc>>

\* pthread_rwlock_wrlock
TWrLock(t) ==
    /\ Running(t)
    /\ th.t[t].pc = "wrlock"
    /\ th.writer = 0 /\ th.readers = {}
    /\ th' = [th EXCEPT !.writer = t, !.t[t].pc = "locked"]
    /\ UNCHANGED <<io, cb, tl, w, file, accepted, rd, last, acc>>

\* under the exclusive lock: find again, fetch, decompress, insert, copy,
\* unlock (or the whole of the cacheless pread)
TLocked(t) ==
    /\ Running(t)
    /\ th.t[t].pc = "locked"
    /\ \E junk \in UninitBytes :
         \E res \in {zseek_pread_locked(rd, file, th.t[t].count, th.t[t].offset, junk)} :
             /\ rd' = AfterCall(res)
             /\ th' = [th EXCEPT !.writer = 0, !.t[t].pc = "done",
                                 !.t[t].fetched = Fetches(rd, th.t[t].frame_idx),
                                 !.t[t].ret = res.ret, !.t[t].data = res.data]
    /\ UNCHANGED <<io, cb, tl, w, file, accepted, last, acc>>

\* the call has returned; the thread goes on to its next call
TReturn(t) ==
    /\ Running(t)
    /\ th.t[t].pc = "done"
    /\ th' = [th EXCEPT !.t[t] = [IdleThread EXCEPT !.calls = th.t[t].calls + 1]]
    /\ UNCHANGED <<io, cb, tl, w, file, accepted, rd, last, acc>>

NextMT ==
    \E t \in Threads :
        \/ TCall(t) \/ TRdLock(t) \/ TFindBegin(t) \/ TFindEnd(t) \/ TCopy(t)
        \/ TUpgrade(t) \/ TWrLock(t) \/ TLocked(t) \/ TReturn(t)

SpecMT == InitMT /\ [][NextMT]_vars

\* the call of thread t, made by a reader that no other thread uses
SingleThreaded(t) ==
    zseek_pread(last.single, file, th.t[t].count, th.t[t].offset, 0)

\* C27: a thread that has taken the exclusive lock fetches, decompresses
\* and inserts the frame only when the cache does not hold its index at
\* that time, and the frame is in the cache when that call has returned
\* without error: of the threads that missed the same frame under the
\* shared lock, one fetches it and the others find it.
C27_DoubleChecked ==
    [][th.active =>
        \A t \in Threads :
            (th.t[t].pc = "locked" /\ th'.t[t].pc = "done" /\ th'.t[t].fetched) =>
                /\ CacheIndexOf(rd.cache, th.t[t].frame_idx) = 0
                /\ th'.t[t].ret >= 0 =>
                       CacheIndexOf(rd'.cache, th.t[t].frame_idx) # 0]_vars

\* two threads missed the same frame under the shared lock; one fetched it,
\* the other found it when it had the exclusive lock
C27_Witness ==
    /\ th.active /\ rd.state = "open" /\ rd.cache # NullCache
    /\ \E t, u \in Threads :
         /\ t # u
         /\ th.t[t].pc = "done" /\ th.t[u].pc = "done"
         /\ th.t[t].frame_idx = th.t[u].frame_idx /\ th.t[t].frame_idx # -1
         /\ ~th.t[t].hit /\ ~th.t[u].hit
         /\ th.t[t].frame.null /\ th.t[u].frame.null
         /\ th.t[t].fetched /\ ~th.t[u].fetched
         /\ th.t[u].ret > 0
         /\ CacheIndexOf(rd.cache, th.t[t].frame_idx) # 0

\* a step of thread t inside a call of zseek_pread that takes or gives back
\* the lock or looks into the cache: the thread is runnable whenever the
\* step is enabled, and the scheduler runs it
TStep(t) ==
    \/ TRdLock(t) \/ TFindBegin(t) \/ TFindEnd(t) \/ TCopy(t)
    \/ TUpgrade(t) \/ TWrLock(t) \/ TReturn(t)

\* the source's pread and the decompressor return: no thread stays in the
\* code that runs under the exclusive lock
CallsReturn(t) == []<>(th.t[t].pc # "locked")

\* the threads under a scheduler that lets every runnable thread run, a
\* lock that is granted when it is free, and calls that return
SpecMTFair == SpecMT /\ \A t \in Threads : WF_vars(TStep(t)) /\ CallsReturn(t)

\* where thread t stands with respect to reader->lock
HoldsShared(t) == t \in th.readers
HoldsExclusive(t) == th.writer = t

\* C35 (as stated): a thread that asks for the exclusive lock or for the
\* shared lock holds neither, the lock is never held in both ways, and every
\* call of zseek_pread that a thread has entered returns.
C35_NoDeadlock ==
    /\ [](\A t \in Threads :
             /\ th.t[t].pc \in {"rdlock", "wrlock"} =>
                    ~HoldsShared(t) /\ ~HoldsExclusive(t)
             /\ th.writer # 0 => th.readers = {})
    /\ \A t \in Threads : (th.t[t].pc # "idle") ~> (th.t[t].pc = "done")

\* C36: a thread that copies out of a frame that zseek_cache_find returned
\* holds the shared lock and the frame is an entry of the cache for as long
\* as it copies (a find that raced with another may have returned a frame
\* that never was an entry); an entry leaves the cache, and its data is
\* freed, only in a step of the thread that holds the exclusive lock, when
\* no thread holds the shared lock and no thread copies.
C36_NoFreeUnderCopy ==
    [][th.active =>
         /\ \A t \in Threads :
              th.t[t].pc = "copy" =>
                  /\ HoldsShared(t) /\ th.writer = 0
                  /\ th.t[t].frame \in CachedFrames(rd.cache) \/ th.t[t].raced
         /\ ~(CachedFrames(rd.cache) \subseteq CachedFrames(rd'.cache)) =>
              /\ th.writer # 0 /\ th.readers = {}
              /\ th.t[th.writer].pc = "locked" /\ th'.t[th.writer].pc = "done"
              /\ \A t \in Threads : th.t[t].pc # "copy"]_vars

\* one thread copies out of the only entry of a full cache while the other,
\* which missed another frame, waits for the exclusive lock to fetch it
C36_Witness ==
    /\ th.active /\ rd.state = "open" /\ rd.cache # NullCache
    /\ rd.cache.size = rd.cache.capacity
    /\ \E t, u \in Threads :
         /\ th.t[t].pc = "copy" /\ ~th.t[t].raced
         /\ th.t[t].frame \in CachedFrames(rd.cache)
         /\ th.t[u].pc = "wrlock"
         /\ CacheIndexOf(rd.cache, th.t[u].frame_idx) = 0

\* C28 (as stated): no two threads are inside cache operations at the same
\* time when one of them changes the cache.  Insertion and eviction run in
\* TLocked, with the exclusive lock; a zseek_cache_find that finds its frame
\* re-inserts it, and runs between TFindBegin and TFindEnd with the shared
\* lock.
C28_CacheProtected ==
    th.active =>
        /\ th.writer # 0 => th.finding = {}
        /\ \A t, u \in th.finding : t # u => (~th.t[t].hit /\ ~th.t[u].hit)

\* C4 (as stated): whatever the interleaving, a pread that returns without
\* error on a shared reader returns the byte count and the bytes that a
\* single-threaded reader returns for the same count and offset.
C4_SharedReader ==
    th.active =>
        \A t \in Threads :
            (th.t[t].pc = "done" /\ th.t[t].ret >= 0) =>
                \A single \in {SingleThreaded(t)} :
                    /\ th.t[t].ret = single.ret
                    /\ th.t[t].data = single.data

----------------------------------------------------------------------------
(* SpecC: a cache on its own, driven as test/test_cache.c drives it:       *)
(* zseek_cache_new, then zseek_cache_insert and zseek_cache_find calls in  *)
(* any order.  cb.inserted lists the frames inserted so far, up to the     *)
(* first find and for at most MaxInserted frames (cb.listed says that the  *)
(* list is complete); it is dropped by the call after that.                *)

MaxCapacity == 3       \* capacities 0..MaxCapacity
NumTestFrames == 4     \* zseek_frame_t frames[4]
MaxFrameIdx == NumTestFrames - 1
MaxInserted == NumTestFrames

\* the frames a caller inserts for an index: two buffers of different length
TestFrames(idx) ==
    { [data |-> [k \in 1..n |-> idx], idx |-> idx, len |-> n, null |-> FALSE] :
        n \in {1, 2} }

InitC ==
    /\ \E capacity \in 0..MaxCapacity :
         cb = [active |-> TRUE, cache |-> zseek_cache_new(capacity), op |-> "new",
               frame |-> NullFrame, ret |-> NullFrame, ok |-> TRUE,
               before |-> NullCache, inserted |-> <<>>, listed |-> TRUE]
    /\ tl = NoBench /\ w = NoWriter /\ file = <<>> /\ accepted = <<>>
    /\ rd = NoReader /\ last = NoCall /\ acc = NoLoop /\ th = NoThreads
    /\ io = GoodSource

\* ok = zseek_cache_insert(cache, frame)
CInsert ==
    /\ cb.active
    /\ \E idx \in 0..MaxFrameIdx : \E frame \in TestFrames(idx) :
         \E r \in {zseek_cache_insert(cb.cache, frame)} :
           cb' = [cb EXCEPT !.cache = r.cache, !.op = "insert", !.frame = frame,
                            !.ret = NullFrame, !.ok = r.ok, !.before = cb.cache,
                            !.inserted = IF ~cb.listed THEN <<>>
                                         ELSE IF ~r.ok THEN @
                                         ELSE IF Len(@) < MaxInserted THEN Append(@, frame)
                                         ELSE <<>>,
                            !.listed = cb.listed /\ (~r.ok \/ Len(cb.inserted) < MaxInserted)]
    /\ UNCHANGED <<io, tl, w, file, accepted, rd, last, acc, th>>

\* found = zseek_cache_find(cache, idx)
CFind ==
    /\ cb.active
    /\ \E idx \in 0..MaxFrameIdx :
         \E r \in {zseek_cache_find(cb.cache, idx)} :
           cb' = [cb EXCEPT !.cache = r.cache, !.op = "find",
                            !.frame = [NullFrame EXCEPT !.idx = idx],
                            !.ret = r.frame, !.ok = ~r.frame.null,
                            !.before = cb.cache, !.listed = FALSE,
                            !.inserted = IF cb.listed THEN @ ELSE <<>>]
    /\ UNCHANGED <<io, tl, w, file, accepted, rd, last, acc, th>>

NextC == CInsert \/ CFind

SpecC == InitC /\ [][NextC]_vars

\* a frame no caller inserts, to push the entries of a cache out
ProbeFrame(k) == [data |-> <<>>, idx |-> MaxFrameIdx + 1 + k, len |-> 0, null |-> FALSE]

CachedIdx(cache) == {cache.map[k].idx : k \in 1..Len(cache.map)}

\* the indices of the entries of a cache in the order in which they leave
\* it when frames with other indices are inserted one after the other
RECURSIVE EvictionOrder(_, _)
EvictionOrder(cache, k) ==
    IF CachedIdx(cache) \cap (0..MaxFrameIdx) = {} \/ k > 2 * cache.capacity THEN <<>>
    ELSE LET Probed(r) ==
                 LET gone == CachedIdx(cache) \ CachedIdx(r.cache)
                 IN  (IF gone = {} THEN <<>> ELSE <<CHOOSE i \in gone : TRUE>>)
                         \o EvictionOrder(r.cache, k + 1)
         IN  Probed(zseek_cache_insert(cache, ProbeFrame(k)))

\* the last n elements of a sequence
LastOf(seq, n) == SubSeq(seq, Len(seq) - MIN(n, Len(seq)) + 1, Len(seq))

\* C11: with no find made, the entries of the cache are the last
\* `capacity` frames inserted and they leave in the order of their
\* insertion; the first find returns the frame inserted (data, index and
\* length) for an index among them and nothing for any other index.
C11_InsertionOrder ==
    (cb.active /\ cb.inserted # <<>>) =>
        LET kept == LastOf(cb.inserted, cb.before.capacity)
        IN  /\ cb.listed =>
                /\ cb.cache.map = LastOf(cb.inserted, cb.cache.capacity)
                /\ EvictionOrder(cb.cache, 0) =
                       [k \in 1..Len(cb.cache.map) |->
                           LastOf(cb.inserted, cb.cache.capacity)[k].idx]
            /\ (cb.op = "find" /\ cb.before.map = kept) =>
                /\ (\E k \in 1..Len(kept) : kept[k].idx = cb.frame.idx)
                       => cb.ret \in {kept[k] : k \in 1..Len(kept)}
                               /\ cb.ret.idx = cb.frame.idx
                /\ (\A k \in 1..Len(kept) : kept[k].idx # cb.frame.idx)
                       => cb.ret = NullFrame

\* frames 0, 1, 2, 3 went into a cache of three; find(0) came back empty
C11_Witness ==
    /\ cb.active /\ cb.op = "find" /\ cb.before.capacity = 3
    /\ Len(cb.inserted) = 4
    /\ \A k \in 1..4 : cb.inserted[k].idx = k - 1
    /\ cb.frame.idx = 0 /\ cb.ret = NullFrame
    /\ CachedIdx(cb.cache) = {1, 2, 3}

\* a sequence without the element i
Without(seq, i) == LET Other(j) == j # i IN SelectSeq(seq, Other)

\* C12: a find that hits index i returns the entry, leaves the entries of
\* the cache as they are and makes i the last of them to leave on later
\* inserts; the other entries leave in the order they had before the find.
C12_FindMakesMRU ==
    (cb.active /\ cb.op = "find" /\ cb.frame.idx \in CachedIdx(cb.before)) =>
        /\ cb.ret \in CachedFrames(cb.before) /\ cb.ret.idx = cb.frame.idx
        /\ CachedFrames(cb.cache) = CachedFrames(cb.before)
        /\ zseek_cache_entries(cb.cache) = zseek_cache_entries(cb.before)
        /\ cb.cache.entries_memory = cb.before.entries_memory
        /\ EvictionOrder(cb.cache, 0) =
               Append(Without(EvictionOrder(cb.before, 0), cb.frame.idx), cb.frame.idx)

\* a find hit the middle entry of a full cache of three
C12_Witness ==
    /\ cb.active /\ cb.op = "find" /\ ~cb.ret.null
    /\ cb.before.capacity = 3 /\ Len(cb.before.map) = 3
    /\ cb.before.map[2].idx = cb.frame.idx
    /\ cb.cache.map[3].idx = cb.frame.idx
    /\ cb.cache.map[1] = cb.before.map[1] /\ cb.cache.map[2] = cb.before.map[3]

\* C13: an insert of a frame whose index is already in the cache returns
\* false and leaves the cache as it was: the same entries with the same
\* data, in the same eviction order, the same entry count and memory.
C13_DuplicateInsert ==
    (cb.active /\ cb.op = "insert" /\ cb.frame.idx \in CachedIdx(cb.before)) =>
        /\ ~cb.ok
        /\ CachedFrames(cb.cache) = CachedFrames(cb.before)
        /\ cb.cache.map = cb.before.map
        /\ EvictionOrder(cb.cache, 0) = EvictionOrder(cb.before, 0)
        /\ zseek_cache_entries(cb.cache) = zseek_cache_entries(cb.before)
        /\ cb.cache.entries_memory = cb.before.entries_memory

\* a frame with other data was refused for an index held by a full cache
C13_Witness ==
    /\ cb.active /\ cb.op = "insert" /\ ~cb.ok
    /\ cb.before.size = cb.before.capacity /\ cb.before.capacity > 1
    /\ \E k \in 1..Len(cb.before.map) :
          cb.before.map[k].idx = cb.frame.idx /\ cb.before.map[k].data # cb.frame.data

----------------------------------------------------------------------------
(* SpecF: one caller on a reader whose source and whose library calls can  *)
(* fail.  The archive is the one the threads share; the source delivers it *)
(* whole, with a place where reads stop short or with a place that cannot  *)
(* be read, and its condition changes between the calls; or the archive    *)
(* has a byte that differs, for good.  The writer is gone when the reader  *)
(* is opened.                                                              *)

Faults == {"none", "rdlock", "wrlock", "resize", "malloc", "insert"}

\* the bytes the source holds under a condition
Medium(f, cond) ==
    IF cond.kind = "good" \/ cond.at >= Len(f) THEN f
    ELSE IF cond.kind = "short" THEN [f EXCEPT ![cond.at + 1] = ShortStop]
    ELSE IF cond.kind = "error" THEN [f EXCEPT ![cond.at + 1] = ReadError]
    ELSE [f EXCEPT ![cond.at + 1] = (@ + 1) % 256]

\* the size of the trailer of a seek table
TrailerSize(st) ==
    ZSTD_SKIPPABLEHEADERSIZE
        + st.tableLen * (SEEK_ENTRY_SIZE_NO_CHECKSUM
                           + (IF st.checksumFlag = 1 THEN SEEK_ENTRY_CHECKSUM_SIZE ELSE 0))
        + ZSTD_seekTableFooterSize

\* one byte into the frames of every seek table entry
FramePlaces(st) == {frame_offset_c(st, i) + 1 : i \in 0..(st.tableLen - 1)}

\* one byte into the header, the entries and the footer of the trailer
TrailerPlaces(st, f) ==
    { Len(f) - TrailerSize(st) + 1,
      Len(f) - TrailerSize(st) + ZSTD_SKIPPABLEHEADERSIZE + 1,
      Len(f) - ZSTD_seekTableFooterSize + 1 }

\* the conditions of the source when the reader is opened, and afterwards
OpenConditions(f) ==
    {GoodSource}
        \cup { [kind |-> k, at |-> p] : k \in {"short", "error"},
                                        p \in TrailerPlaces(read_seek_table(f, 0), f) }
        \cup { [kind |-> "corrupt", at |-> p] : p \in FramePlaces(read_seek_table(f, 0)) }

ReadConditions(st) ==
    {GoodSource} \cup
        { [kind |-> k, at |-> p] : k \in {"short", "error"}, p \in FramePlaces(st) }

InitF ==
    /\ \E k \in WriterKinds :
         \E x \in {zseek_writer_close(
                    RunScript([w |-> zseek_writer_open_full(k[1], k[2], MaxMinFrameSize),
                               file |-> <<>>], SharedScript, 0))} :
             /\ file = x.file
             /\ accepted = InputBytes(0, SumSeq(SharedScript))
             /\ io \in OpenConditions(x.file)
    /\ w = NoWriter
    /\ rd = NoReader
    /\ last = [op |-> "close"]
    /\ acc = NoLoop /\ tl = NoBench /\ cb = NoCacheBench /\ th = NoThreads

\* reader = zseek_reader_open_full(user_file, cache_size)
FOpen ==
    /\ rd = NoReader
    /\ \E cache_size \in 0..MaxCacheSize :
         \E r \in {zseek_reader_open_full(Medium(file, io), cache_size, 0)} :
             /\ rd' = r
             /\ last' = [op |-> "open", cache_size |-> cache_size, cond |-> io,
                         opened |-> r, failed_before |-> FALSE, failed |-> FALSE]
    /\ UNCHANGED <<io, cb, th, w, file, accepted, acc, tl>>

\* the source changes between two calls
FCondition ==
    /\ rd.state = "open" /\ io.kind # "corrupt"
    /\ io' \in ReadConditions(rd.st) \ {io}
    /\ UNCHANGED <<cb, th, w, file, accepted, rd, last, acc, tl>>

\* ret = zseek_pread(reader, buf, count, offset), the same call on a reader
\* just opened beside it
FPread ==
    /\ rd.state = "open"
    /\ \E f \in {Medium(file, io)} :
       \E count \in {MaxCount}, offset \in SharedOffsets(rd.st), flt \in Faults,
          junk \in UninitBytes :
         \E res   \in {zseek_pread_path(rd, f, count, offset, junk, flt)},
            fresh \in {zseek_pread(last.opened, f, count, offset, junk)} :
             /\ rd' = AfterCall(res)
             /\ last' = [op |-> "pread", count |-> count, offset |-> offset,
                         flt |-> flt, cond |-> io, before |-> rd,
                         ret |-> res.ret, data |-> res.data, ev |-> res.ev,
                         fresh_ret |-> fresh.ret, fresh_data |-> fresh.data,
                         opened |-> last.opened, failed_before |-> last.failed,
                         failed |-> last.failed \/ res.ret = -1]
    /\ UNCHANGED <<io, cb, th, w, file, accepted, acc, tl>>

\* The public operations given a null handle.  zseek_pread, zseek_write
\* and the two stats functions test the handle first and return false;
\* zseek_read reads reader->pos for the call it makes, ahead of any test,
\* and `ub` is what comes of reading through the null pointer: the process
\* stopped by the trap, or some value read and zseek_pread called with it.
\* [returned, ret, errbuf]; ret is the value as the caller sees it, false
\* being 0.
NullDerefOutcomes == {"trap", "value"}

NullHandleCall(fn, ub) ==
    IF fn = "zseek_read" /\ ub = "trap"
    THEN [returned |-> FALSE, ret |-> 0, errbuf |-> ""]
    ELSE IF fn \in {"zseek_pread", "zseek_read", "zseek_reader_stats"}
    THEN [returned |-> TRUE, ret |-> 0, errbuf |-> "invalid reader"]
    ELSE [returned |-> TRUE, ret |-> 0, errbuf |-> "invalid writer"]

\* a caller whose zseek_reader_open gave no reader calls with the null
\* handle it holds
FNullCall ==
    /\ rd.state = "failed"
    /\ last.op # "null_call"
    /\ \E fn \in {"zseek_pread", "zseek_read", "zseek_reader_stats",
                   "zseek_write", "zseek_writer_stats"},
          ub \in NullDerefOutcomes :
         \E res \in {NullHandleCall(fn, ub)} :
             last' = [op |-> "null_call", fn |-> fn, returned |-> res.returned,
                      ret |-> res.ret, errbuf |-> res.errbuf, before |-> rd]
    /\ UNCHANGED <<io, cb, th, w, file, accepted, rd, acc, tl>>

NextF == FOpen \/ FCondition \/ FPread \/ FNullCall

SpecF == InitF /\ [][NextF]_vars

\* the calls of a trace
Calls(ev) == {ev[k] : k \in 1..Len(ev)}

\* what a pread of the archive is to return: the bytes of the input from
\* the offset on, up to count and to the end of the seek table entry
ExpectedCount(st, count, offset) ==
    IF offset >= seek_table_decompressed_size(st) THEN 0
    ELSE MIN(count, LeftInFrame(st, offset))

ExpectedBytes(st, count, offset) ==
    SubSeq(accepted, offset + 1, offset + ExpectedCount(st, count, offset))

\* C14: zseek_cache_new(0) gives no cache; a reader opened with cache
\* capacity 0 on a source in good condition opens and has no cache; none of
\* its preads calls zseek_cache_find or zseek_cache_insert or takes the
\* shared lock, each takes the exclusive lock first; a pread that returns
\* without error returns the bytes of the input, and a pread returns
\* without error when the source is good, no library call fails and no
\* earlier pread failed.
C14_NoCacheReader ==
    /\ zseek_cache_new(0) = NullCache
    /\ (last.op = "open" /\ last.cache_size = 0 /\ last.cond = GoodSource) =>
           rd.state = "open" /\ rd.cache = NullCache
    /\ (last.op = "pread" /\ last.opened.cache = NullCache) =>
           /\ rd.cache = NullCache
           /\ Calls(last.ev) \cap {"find", "insert", "insert_failed", "malloc",
                                   "rdlock", "rdlock_failed"} = {}
           /\ last.ev # <<>> => last.ev[1] \in {"wrlock", "wrlock_failed"}
           /\ last.ret >= 0 =>
                 /\ last.ret = ExpectedCount(rd.st, last.count, last.offset)
                 /\ last.data = ExpectedBytes(rd.st, last.count, last.offset)
           /\ (last.cond = GoodSource /\ last.flt = "none" /\ ~last.failed_before)
                 => last.ret >= 0

\* a pread of MaxCount bytes served under the exclusive lock by a reader
\* opened with cache capacity 0
C14_Witness ==
    /\ last.op = "pread" /\ last.opened.cache = NullCache
    /\ last.ret = MaxCount /\ last.offset = 0
    /\ last.data = SubSeq(accepted, 1, MaxCount)
    /\ last.ev = <<"wrlock", "pread", "decompress", "unlock">>

\* the lock the caller holds after the calls of a trace: "none", "shared",
\* "exclusive", or "bad" once it locks what it holds or unlocks what it
\* does not hold
RECURSIVE LockAfter(_, _)
LockAfter(ev, held) ==
    IF ev = <<>> \/ held = "bad" THEN held
    ELSE IF Head(ev) = "rdlock"
    THEN LockAfter(Tail(ev), IF held = "none" THEN "shared" ELSE "bad")
    ELSE IF Head(ev) = "wrlock"
    THEN LockAfter(Tail(ev), IF held = "none" THEN "exclusive" ELSE "bad")
    ELSE IF Head(ev) = "unlock"
    THEN LockAfter(Tail(ev), IF held = "none" THEN "bad" ELSE "none")
    ELSE LockAfter(Tail(ev), held)

\* the number of calls of a trace that are in a set
CountOf(ev, calls) == Cardinality({k \in 1..Len(ev) : ev[k] \in calls})

FrameFetch ==
    FetchFrame(last.before, Medium(file, last.cond),
               offset_to_frame_idx(last.before.st, last.offset))

\* C17: when the source returns fewer bytes than asked for, the operation
\* fails: a pread returns -1 with nothing in buf, decompresses nothing,
\* inserts nothing and leaves the reader as it was; an open whose footer,
\* header or entries come short gives no reader.
C17_ShortRead ==
    /\ (last.op = "pread" /\ "pread" \in Calls(last.ev)
          /\ FrameFetch.n < frame_size_c(last.before.st,
                                offset_to_frame_idx(last.before.st, last.offset))) =>
           /\ last.ret = -1 /\ last.data = <<>>
           /\ Calls(last.ev) \cap {"decompress", "malloc", "insert"} = {}
           /\ rd = last.before
    /\ (last.op = "open" /\ last.cond.kind = "short") => rd = FailedReader

\* one byte of a frame came back and the pread failed
C17_Witness ==
    /\ last.op = "pread" /\ last.ret = -1 /\ last.flt = "none"
    /\ last.cond.kind = "short"
    /\ FrameFetch.n = 1
    /\ rd.cache # NullCache

\* the source had all the bytes of the frame for the last pread
FetchSucceeded ==
    offset_to_frame_idx(last.before.st, last.offset) # -1 =>
        FrameFetch.n = frame_size_c(last.before.st,
                           offset_to_frame_idx(last.before.st, last.offset))

\* C16 (as stated): a pread that fails leaves the cache with the entries
\* it had and the codec context at the start of a frame; once a pread has
\* failed, every later pread whose reads and library calls succeed returns
\* the count and the bytes that the same pread returns on a reader just
\* opened.
C16_UsableAfterFailure ==
    last.op = "pread" =>
        /\ last.ret = -1 =>
              /\ CachedFrames(rd.cache) = CachedFrames(last.before.cache)
              /\ rd.dctx_lz4 = Lz4dctxInit
        /\ (last.failed_before /\ last.flt = "none" /\ FetchSucceeded) =>
              /\ last.ret = last.fresh_ret
              /\ last.data = last.fresh_data

\* C37: a pread that returns has allocated one decompressed buffer at most,
\* and that buffer went to the cache or was freed by the reader, never
\* both and never neither.  After a successful insert the frame is an
\* entry of the cache, with the size of the frame, and the call succeeded;
\* when the decompression or the insert failed the call returns -1, the
\* cache has no entry of that frame and is as it was before the call:
\* entries, their order, entry count and memory.
C37_BufferOwnership ==
    (rd.state = "open" /\ last.op = "pread" /\ last.ret # Hang) =>
        \A idx \in {offset_to_frame_idx(last.before.st, last.offset)} :
            /\ CountOf(last.ev, {"malloc"}) <= 1
            /\ CountOf(last.ev, {"malloc"}) = CountOf(last.ev, {"free", "insert"})
            /\ "insert_failed" \in Calls(last.ev) => "free" \in Calls(last.ev)
            /\ "insert" \in Calls(last.ev) =>
                  /\ last.ret >= 0
                  /\ CacheIndexOf(rd.cache, idx) # 0
                  /\ CacheIndexOf(last.before.cache, idx) = 0
                  /\ rd.cache.map[CacheIndexOf(rd.cache, idx)].len
                         = frame_size_d(rd.st, idx)
                  /\ rd.cache.size = Len(rd.cache.map)
                  /\ rd.cache.size <= rd.cache.capacity
            /\ "free" \in Calls(last.ev) =>
                  /\ last.ret = -1
                  /\ CacheIndexOf(rd.cache, idx) = 0
                  /\ rd.cache = last.before.cache

\* the insert of a decompressed frame failed and the reader freed the
\* buffer; an earlier call had failed as well
C37_Witness ==
    /\ rd.state = "open" /\ last.op = "pread" /\ last.ret = -1
    /\ last.flt = "insert" /\ last.failed_before
    /\ last.ev = <<"rdlock", "find", "unlock", "wrlock", "find", "pread", "malloc",
                   "decompress", "insert_failed", "free", "unlock">>
    /\ rd.cache = last.before.cache /\ rd.cache.size = 0

\* C24 (as stated): zseek_pread, zseek_read, zseek_write and the stats
\* functions, given a null handle, return with an error: a negative value
\* from zseek_pread and zseek_read, false from the others, a message in
\* errbuf; and the reader is as it was.
C24_NullHandle ==
    last.op = "null_call" =>
        /\ last.returned
        /\ last.errbuf # ""
        /\ last.fn \in {"zseek_pread", "zseek_read"} => last.ret < 0
        /\ last.fn \notin {"zseek_pread", "zseek_read"} => last.ret = 0
        /\ rd = last.before

----------------------------------------------------------------------------
(* SpecP: the read cursor.  One caller on the reader of SpecF, opened on a *)
(* source in good condition that may fail later, mixes zseek_read calls    *)
(* with zseek_pread calls at offsets of its own.                           *)

InitP == InitF /\ io = GoodSource

\* ret = zseek_read(reader, buf, count); `at` is zseek_pread on the reader
\* as it was, at the cursor it had
PRead ==
    /\ rd.state = "open"
    /\ \E f \in {Medium(file, io)} :
       \E count \in {MaxCount}, flt \in Faults, junk \in UninitBytes :
         \E res \in {zseek_read(rd, f, count, junk, flt)},
            at  \in {zseek_pread_path(rd, f, count, rd.pos, junk, flt)} :
             /\ rd' = AfterCall(res)
             /\ last' = [op |-> "read", pos |-> rd.pos,
                         ret |-> res.ret, data |-> res.data,
                         at_ret |-> at.ret, at_data |-> at.data]
    /\ UNCHANGED <<io, cb, th, w, file, accepted, acc, tl>>

\* ret = zseek_pread(reader, buf, count, offset)
PPread ==
    /\ rd.state = "open"
    /\ \E f \in {Medium(file, io)} :
       \E count \in {MaxCount}, offset \in SharedOffsets(rd.st), flt \in Faults,
          junk \in UninitBytes :
         \E res \in {zseek_pread_path(rd, f, count, offset, junk, flt)} :
             /\ rd' = AfterCall(res)
             /\ last' = [op |-> "pread", pos |-> rd.pos,
                         ret |-> res.ret, data |-> res.data,
                         at_ret |-> res.ret, at_data |-> res.data]
    /\ UNCHANGED <<io, cb, th, w, file, accepted, acc, tl>>

NextP == FOpen \/ FCondition \/ PRead \/ PPread

SpecP == InitP /\ [][NextP]_vars

\* C21: zseek_read returns the count and the bytes that zseek_pread
\* returns at the cursor; the cursor moves on by the count returned, and
\* stays where it was when that is 0 or an error; zseek_pread leaves the
\* cursor alone.
C21_ReadCursor ==
    /\ last.op = "read" =>
          /\ last.ret = last.at_ret
          /\ last.data = last.at_data
          /\ rd.pos = last.pos + (IF last.ret > 0 THEN last.ret ELSE 0)
    /\ last.op = "pread" => rd.pos = last.pos

\* a read at the last byte of the archive that returns less than asked
\* for, after reads that moved the cursor there
C21_Witness ==
    /\ last.op = "read"
    /\ last.pos > 0
    /\ last.ret > 0 /\ last.ret < MaxCount
    /\ rd.pos = seek_table_decompressed_size(rd.st)

----------------------------------------------------------------------------
(* SpecL: the cache of the revision that keeps a search tree and a linked  *)
(* list (head is least recently used, tail most recently used), on its     *)
(* own: zseek_cache_new, then zseek_cache_insert and zseek_cache_find      *)
(* calls in any order.  The zseek_cached_frame_t objects are the nodes      *)
(* 1..MaxNodes in the order of their malloc; 0 is NULL.  A node is          *)
(* [next, prev, idx, len, live]; live is FALSE once it is freed.  `ub` is   *)
(* set when a call reads or writes a node that was freed, or hands insque   *)
(* the element itself as its predecessor.                                   *)

MaxNodes == 3          \* zseek_cached_frame_t objects allocated by a cache
MaxListCapacity == 2   \* capacities 1..MaxListCapacity
MaxListIdx == 2        \* frame indices 0..MaxListIdx

NoNode == [next |-> 0, prev |-> 0, idx |-> -1, len |-> 0, live |-> FALSE]

\* zseek_cache_new, capacity > 0
list_cache_new(capacity) ==
    [root |-> {}, node |-> [n \in 1..MaxNodes |-> NoNode], used |-> 0,
     head |-> 0, tail |-> 0, size |-> 0, capacity |-> capacity,
     entries_memory |-> 0, ub |-> FALSE]

\* a read or a write of node n
Touched(c, n) == [c EXCEPT !.ub = @ \/ ~c.node[n].live]

\* remque(elem): the neighbours are linked to each other, elem keeps its
\* pointers
remque(c, elem) ==
    LET next == c.node[elem].next
        prev == c.node[elem].prev
        Back(c1) == IF prev # 0
                    THEN [Touched(c1, prev) EXCEPT !.node[prev].next = next]
                    ELSE c1
    IN  Back(IF next # 0
             THEN [Touched(Touched(c, elem), next) EXCEPT !.node[next].prev = prev]
             ELSE Touched(c, elem))

\* insque(elem, prev)
insque(c, elem, prev) ==
    IF prev = 0 THEN [c EXCEPT !.node[elem].next = 0, !.node[elem].prev = 0]
    ELSE LET next == c.node[prev].next
             Linked(c1) ==
                 [(IF next # 0
                   THEN [Touched(c1, next) EXCEPT !.node[next].prev = elem]
                   ELSE c1)
                  EXCEPT !.node[elem].next = next, !.node[elem].prev = prev]
         IN  Linked([Touched(c, prev) EXCEPT !.node[prev].next = elem,
                                             !.ub = @ \/ elem = prev])

\* tfind / tsearch / tdelete compare frame.idx
TreeNodes(c, idx) == {n \in c.root : c.node[n].idx = idx}

make_mru(c, f) ==
    LET Queued(c1) ==
            [insque(IF c1.tail = 0 THEN [c1 EXCEPT !.head = f] ELSE c1, f, c1.tail)
             EXCEPT !.tail = f]
    IN  Queued(remque(c, f))

evict_lru(c) ==
    LET lru == c.head
        Freed(c1) ==
            [c1 EXCEPT !.root = @ \ TreeNodes(c1, c1.node[lru].idx),
                       !.size = @ - 1,
                       !.entries_memory = @ - c1.node[lru].len,
                       !.node[lru].live = FALSE]
    IN  IF lru = 0 THEN c
        ELSE IF c.head = c.tail
        THEN Freed([Touched(c, lru) EXCEPT !.head = 0, !.tail = 0])
        ELSE Freed(remque([Touched(c, lru) EXCEPT !.head = c.node[lru].next], lru))

\* [frame, cache]
list_cache_find(c, frame_idx) ==
    LET Found(f) ==
            [frame |-> [idx |-> c.node[f].idx, len |-> c.node[f].len, null |-> FALSE],
             cache |-> make_mru(c, f)]
    IN  IF TreeNodes(c, frame_idx) = {}
        THEN [frame |-> [idx |-> 0, len |-> 0, null |-> TRUE], cache |-> c]
        ELSE Found(CHOOSE f \in TreeNodes(c, frame_idx) : TRUE)

\* [ok, cache]; `fails` is the malloc of the list element failing
list_cache_insert(c, frame, fails) ==
    LET Listed(c1, f) ==
            [ok |-> TRUE,
             cache |-> [insque(IF c1.tail = 0 THEN [c1 EXCEPT !.head = f] ELSE c1,
                               f, c1.tail)
                        EXCEPT !.tail = f, !.size = @ + 1,
                               !.entries_memory = @ + frame.len]]
        Searched(c1, f) ==
            Listed(IF TreeNodes(c1, frame.idx) = {}
                   THEN [c1 EXCEPT !.root = @ \cup {f}] ELSE c1, f)
        Allocated(c1) ==
            IF fails THEN [ok |-> FALSE, cache |-> c1]
            ELSE Searched([c1 EXCEPT !.used = @ + 1,
                                     !.node[c1.used + 1] =
                                         [next |-> 0, prev |-> 0, idx |-> frame.idx,
                                          len |-> frame.len, live |-> TRUE]],
                          c1.used + 1)
    IN  Allocated(IF c.size = c.capacity THEN evict_lru(c) ELSE c)

\* what a build makes of a read or a write of freed memory
UseAfterFreeOutcomes == {"unnoticed", "abort"}

\* cb.order lists the frame indices used so far (inserted, or found by a
\* find), each once, the most recently used last
Recent(order, idx) == Append(SelectSeq(order, LAMBDA i : i # idx), idx)

PlaceIn(order, idx) == CHOOSE p \in 1..Len(order) : order[p] = idx

InitL ==
    /\ \E capacity \in 1..MaxListCapacity :
         cb = [active |-> TRUE, cache |-> list_cache_new(capacity), op |-> "new",
               idx |-> 0, ok |-> TRUE, order |-> <<>>, aborted |-> FALSE,
               before |-> list_cache_new(capacity)]
    /\ tl = NoBench /\ w = NoWriter /\ file = <<>> /\ accepted = <<>>
    /\ rd = NoReader /\ last = NoCall /\ acc = NoLoop /\ th = NoThreads
    /\ io = GoodSource

ListCall(op, idx, ok, c, order) ==
    \E o \in UseAfterFreeOutcomes :
        /\ ~c.ub => o = "unnoticed"
        /\ cb' = [active |-> TRUE, cache |-> [c EXCEPT !.ub = FALSE], op |-> op,
                  idx |-> idx, ok |-> ok, order |-> order,
                  aborted |-> (o = "abort"), before |-> cb.cache]

LInsert ==
    /\ ~cb.aborted
    /\ cb.cache.used < MaxNodes
    /\ \E idx \in 0..MaxListIdx, len \in {1, 2}, fails \in BOOLEAN :
         \E res \in {list_cache_insert(cb.cache, [idx |-> idx, len |-> len], fails)} :
             ListCall("insert", idx, res.ok, res.cache,
                      IF res.ok THEN Recent(cb.order, idx)
                      ELSE cb.order)
    /\ UNCHANGED <<io, tl, w, file, accepted, rd, last, acc, th>>

LFind ==
    /\ ~cb.aborted
    /\ \E idx \in 0..MaxListIdx :
         \E res \in {list_cache_find(cb.cache, idx)} :
             ListCall("find", idx, ~res.frame.null, res.cache,
                      IF res.frame.null THEN cb.order
                      ELSE Recent(cb.order, idx))
    /\ UNCHANGED <<io, tl, w, file, accepted, rd, last, acc, th>>

NextL == LInsert \/ LFind

SpecL == InitL /\ [][NextL]_vars

\* the nodes of the list from node n on, following next, k nodes at most
RECURSIVE ListFrom(_, _, _)
ListFrom(c, n, k) ==
    IF n = 0 \/ k = 0 THEN <<>> ELSE <<n>> \o ListFrom(c, c.node[n].next, k - 1)

\* C33 (as stated), for the cache with the search tree and the list: after
\* any calls of insert and find, the list from head on ends at tail, holds
\* live nodes only, each node of the tree once and no other node, no frame
\* index twice, as many nodes as size says, and runs from the least
\* recently used frame to the most recently used one.
C33_ListConsistent ==
    (cb.active /\ ~cb.aborted) =>
        \A list \in {ListFrom(cb.cache, cb.cache.head, MaxNodes + 1)} :
            /\ Len(list) = cb.cache.size
            /\ {list[k] : k \in 1..Len(list)} = cb.cache.root
            /\ \A k \in 1..Len(list) : cb.cache.node[list[k]].live
            /\ \A j, k \in 1..Len(list) :
                   cb.cache.node[list[j]].idx = cb.cache.node[list[k]].idx => j = k
            /\ list # <<>> => list[Len(list)] = cb.cache.tail
            /\ list = <<>> => cb.cache.tail = 0
            /\ \A j, k \in 1..Len(list) :
                   j < k => PlaceIn(cb.order, cb.cache.node[list[j]].idx)
                              < PlaceIn(cb.order, cb.cache.node[list[k]].idx)

\* the frame indices of the tree
ListIdx(c) == {c.node[n].idx : n \in c.root}

\* the frame indices in the order in which evict_lru calls, one per later
\* insert into the full cache, take them out: k calls at most
RECURSIVE LeaveOrder(_, _)
LeaveOrder(c, k) ==
    IF c.head = 0 \/ k = 0 THEN <<>>
    ELSE <<c.node[c.head].idx>> \o LeaveOrder(evict_lru(c), k - 1)

\* C12 (as stated), for the cache with the search tree and the list: a find
\* that hits frame i returns it and makes it the last of the entries to
\* leave on later inserts, whether it was the first, the last or in
\* between; the other entries leave in the order they had before the find.
C12_ListFindMakesMRU ==
    (cb.active /\ ~cb.aborted /\ cb.op = "find" /\ cb.idx \in ListIdx(cb.before)) =>
        /\ cb.ok
        /\ ListIdx(cb.cache) = ListIdx(cb.before)
        /\ LeaveOrder(cb.cache, cb.cache.size) =
               Append(Without(LeaveOrder(cb.before, cb.before.size), cb.idx), cb.idx)

\* C13 (as stated), for the cache with the search tree and the list: an
\* insert of a frame whose index is in the cache returns false and leaves
\* the cache as it was.
C13_ListDuplicateInsert ==
    (cb.active /\ ~cb.aborted /\ cb.op = "insert" /\ cb.idx \in ListIdx(cb.before)) =>
        /\ ~cb.ok
        /\ cb.cache = cb.before

\* the least recently used of the frame indices of the tree
LeastRecent(c, order) ==
    CHOOSE i \in ListIdx(c) : \A j \in ListIdx(c) : PlaceIn(order, i) <= PlaceIn(order, j)

\* C34 (as stated), for the cache with the search tree and the list: the
\* cache never holds more than `capacity` entries; an insert of a new index
\* into a full cache takes out one entry, the least recently used one,
\* and adds the new one; an insert into a cache that is not full takes
\* nothing out.
C34_ListEviction ==
    (cb.active /\ ~cb.aborted) =>
        /\ cb.cache.size <= cb.cache.capacity
        /\ Cardinality(cb.cache.root) <= cb.cache.capacity
        /\ (cb.op = "insert" /\ cb.idx \notin ListIdx(cb.before)) =>
              IF cb.before.size = cb.before.capacity
              THEN cb.ok => ListIdx(cb.cache) =
                               (ListIdx(cb.before) \ {LeastRecent(cb.before, cb.order)})
                                   \cup {cb.idx}
              ELSE ListIdx(cb.before) \subseteq ListIdx(cb.cache)

----------------------------------------------------------------------------
(* SpecW: a writer that has completed some frames and takes more          *)
(* zseek_write calls, then is closed: the writer of Spec, started near    *)
(* the frame that fills a seek table entry.                                *)

\* the calls of MaxWriteLen bytes made before the calls of the actions
WriterRuns == {0, DEFAULT_FRAMES_PER_STE - 2}

InitW ==
    /\ \E k \in WriterKinds, m \in 0..MaxMinFrameSize, run \in WriterRuns :
         \E x \in {RunScript([w |-> zseek_writer_open_full(k[1], k[2], m),
                              file |-> <<>>],
                             [i \in 1..run |-> MaxWriteLen], 0)} :
             /\ w = x.w
             /\ file = x.file
             /\ accepted = InputBytes(0, run * MaxWriteLen)
    /\ rd = NoReader
    /\ last = [op |-> "open", calls |-> 0]
    /\ acc = NoLoop /\ tl = NoBench /\ cb = NoCacheBench /\ th = NoThreads
    /\ io = GoodSource

NextW == Write \/ Close

SpecW == InitW /\ [][NextW]_vars

\* the seek table entry counters after a frame of c compressed and d
\* decompressed bytes was completed, as the claim has them
SteAfterFrame(wr, c, d, force_ste) ==
    IF wr.ste_frames + 1 = wr.frames_per_ste \/ force_ste
    THEN [entries |-> Append(wr.fl.entries,
                         [cSize |-> wr.ste_cm + c, dSize |-> wr.ste_uc + d,
                          checksum |-> 0]),
          ste_frames |-> 0, ste_uc |-> 0, ste_cm |-> 0]
    ELSE [entries |-> wr.fl.entries, ste_frames |-> wr.ste_frames + 1,
          ste_uc |-> wr.ste_uc + d, ste_cm |-> wr.ste_cm + c]

SteOf(wr) ==
    [entries |-> wr.fl.entries, ste_frames |-> wr.ste_frames,
     ste_uc |-> wr.ste_uc, ste_cm |-> wr.ste_cm]

\* C31 (as stated): a call that completes no frame leaves the seek table
\* entry counters and the frame log as they were; a call that completes a
\* frame adds 1, the decompressed size of the frame and its compressed size
\* to ste_frames, ste_uc and ste_cm, and exactly when ste_frames has come to
\* frames_per_ste, or close forces it, logs (ste_cm, ste_uc, 0) and resets
\* the three counters; ste_frames < frames_per_ste after every write.
C31_SteCounters ==
    [][w.state = "open" =>
        /\ Len(FrameSizes(file', 0)) <= Len(FrameSizes(file, 0)) + 1
        /\ Len(FrameSizes(file', 0)) = Len(FrameSizes(file, 0)) =>
               SteOf(w') = SteOf(w)
        /\ Len(FrameSizes(file', 0)) = Len(FrameSizes(file, 0)) + 1 =>
               SteOf(w') = SteAfterFrame(w,
                               5 + FrameSizes(file', 0)[Len(FrameSizes(file', 0))],
                               FrameSizes(file', 0)[Len(FrameSizes(file', 0))],
                               w'.state = "closed")
        /\ w'.state = "open" => w'.ste_frames < w'.frames_per_ste]_vars

----------------------------------------------------------------------------
(* SpecO: zseek_writer_open for zstd with workers and an affinity mask.    *)
(* The calling thread has a CPU affinity of its own; the open saves it,    *)
(* sets the mask asked for while the workers are created and sets the      *)
(* saved one again.  The calls of the open may fail.  The writer that      *)
(* comes out takes zseek_write calls and is closed as in Spec.             *)

\* the CPUs of the machine and the masks a thread or a caller may have
NumCpus == 2
CpuSets == (SUBSET (0..(NumCpus - 1))) \ {{}}
NoCpuSet == {}

\* the calls of the open that may fail: pthread_getaffinity_np, the
\* pthread_setaffinity_np with the mask asked for, ZSTD_compressStream2,
\* the pthread_setaffinity_np with the saved mask, zseek_buffer_new
OpenFaults == {"getaffinity", "setaffinity", "compressStream2", "restore", "ubuf"}

FailedWriter == [state |-> "failed"]

\* how an open ends: [ok, errbuf, affinity, changed, w]; `changed` tells
\* whether the affinity of the thread was another at some time in the call
OpenExit(ok, errbuf, affinity, changed, wr) ==
    [ok |-> ok, errbuf |-> errbuf, affinity |-> affinity, changed |-> changed,
     w |-> wr]

\* fail_w_cpuset without the call that sets the saved mask again
fail_w_cpuset_as_is(prev, now, flt) == now

\* fail_w_cpuset: pthread_setaffinity_np(self_tid, ..., &prev_cpuset), its
\* result not looked at
fail_w_cpuset(prev, now, flt) == IF "restore" \in flt THEN now ELSE prev

\* zseek_writer_open_full_zstd, the part that deals with the workers and
\* the affinity, for a thread of affinity `prev`.  The result of the
\* pthread_setaffinity_np that sets the mask asked for is not assigned, so
\* the test that follows it sees the 0 of pthread_getaffinity_np.
zseek_writer_open_full_zstd(prev, nb_workers, cpuset, min_frame_size, flt) ==
    LET Buffers(now, changed) ==
            IF "ubuf" \in flt
            THEN OpenExit(FALSE, "input buffer creation failed", now, changed,
                          FailedWriter)
            ELSE OpenExit(TRUE, "", now, changed,
                          zseek_writer_open_full("ZSTD", nb_workers > 1, min_frame_size))
        Threads_(now) ==
            IF "compressStream2" \in flt
            THEN OpenExit(FALSE, "create threads", fail_w_cpuset(prev, now, flt),
                          now # prev, FailedWriter)
            ELSE IF "restore" \in flt
            THEN OpenExit(FALSE, "reset thread affinity", now, now # prev,
                          FailedWriter)
            ELSE Buffers(prev, now # prev)
    IN  IF nb_workers > 1 /\ cpuset # NoCpuSet
        THEN IF "getaffinity" \in flt
             THEN OpenExit(FALSE, "get thread affinity", prev, FALSE, FailedWriter)
             ELSE Threads_(IF "setaffinity" \in flt THEN prev ELSE cpuset)
        ELSE Buffers(prev, FALSE)

InitO ==
    /\ w = NoWriter /\ file = <<>> /\ accepted = <<>>
    /\ th \in [active : {FALSE}, affinity : CpuSets]
    /\ rd = NoReader
    /\ last = NoCall
    /\ acc = NoLoop /\ tl = NoBench /\ cb = NoCacheBench
    /\ io = GoodSource

\* writer = zseek_writer_open(file, &param, min_frame_size, errbuf) with
\* param.type ZSEEK_ZSTD
OOpen ==
    /\ w = NoWriter
    /\ \E nb_workers \in {0, 2}, cpuset \in CpuSets \cup {NoCpuSet},
          flt \in SUBSET OpenFaults :
         \E res \in {zseek_writer_open_full_zstd(th.affinity, nb_workers, cpuset,
                                                 MaxMinFrameSize, flt)} :
             /\ w' = res.w
             /\ th' = [th EXCEPT !.affinity = res.affinity]
             /\ last' = [op |-> "open", calls |-> 0, prev |-> th.affinity,
                         cpuset |-> cpuset, nb_workers |-> nb_workers, flt |-> flt,
                         ok |-> res.ok, errbuf |-> res.errbuf,
                         changed |-> res.changed]
    /\ UNCHANGED <<io, cb, file, accepted, rd, acc, tl>>

NextO == OOpen \/ Write \/ Close

SpecO == InitO /\ [][NextO]_vars

----------------------------------------------------------------------------
(* SpecK: zseek_writer_close and zseek_reader_close with steps that fail.  *)
(* A writer that has taken the calls of a script is closed while its sink, *)
(* the allocator or the codec may fail; a reader opened on what the close  *)
(* left is closed while a lock or a codec context may fail to go.  Both    *)
(* closes are followed step by step: the calls made, the steps that        *)
(* failed, the message left in errbuf and the value returned.              *)

\* ZSTD_compressBound (zstd.h): srcSize + srcSize/256 + a margin below 128 KB
ZSTD_compressBound(srcSize) ==
    srcSize + (srcSize \div 256)
        + (IF srcSize < 131072 THEN (131072 - srcSize) \div 2048 ELSE 0)

\* ZSTD_CStreamOutSize (zstd.h): the bound of a block of 128 KB, its header
\* and a checksum
ZSTD_CStreamOutSize == 131591

\* LZ4F_compressFrameBound with the preferences of the writer (blocks of
\* 64 KB, no checksums), for a source below one block: the largest frame
\* header, the block of the bytes with its header if there are any, and
\* the end mark
LZ4F_compressFrameBound(srcSize) ==
    19 + (IF srcSize = 0 THEN 0 ELSE 4 + srcSize) + 4

\* zseek_buffer_reserve when realloc succeeds: the capacity afterwards
zseek_buffer_reserve(have, capacity) ==
    IF capacity <= have THEN have
    ELSE IF capacity > 2 * have THEN capacity ELSE 2 * have

\* the capacity writer->cbuf has after the frames of src from pos on went
\* through it (end_frame_* and compress_frame_* resize it to the bound of
\* the bytes of the frame)
RECURSIVE ReservedOver(_, _, _, _)
ReservedOver(type, src, pos, have) ==
    LET Reserved(now) ==
            IF now < have THEN have    \* a buffer never shrinks
            ELSE ReservedOver(type, src, pos + 5 + src[pos + 5], now)
    IN  IF pos + 5 > Len(src) THEN have
        ELSE Reserved(zseek_buffer_reserve(have,
                 IF type = "ZSTD" THEN ZSTD_compressBound(src[pos + 5])
                 ELSE LZ4F_compressFrameBound(src[pos + 5])))

\* zseek_buffer_capacity(writer->cbuf) of a writer and its sink; with
\* several workers every frame that ended went through a buffer of
\* ZSTD_CStreamOutSize bytes
zseek_buffer_capacity(x) ==
    IF x.w.type = "LZ4"
    THEN ReservedOver("LZ4", x.file, 0, LZ4F_compressFrameBound(x.w.min_frame_size))
    ELSE IF ~x.w.mt
    THEN ReservedOver("ZSTD", x.file, 0, ZSTD_compressBound(x.w.min_frame_size))
    ELSE IF x.file = <<>> THEN ZSTD_compressBound(x.w.min_frame_size)
    ELSE ZSTD_CStreamOutSize

\* what can fail while a writer is closed: the codec, realloc, the write
\* callback of the sink, ZSTD_freeCCtx
CloseFaults == {"compress", "resize", "write", "freeCCtx"}

\* what can fail while a reader is closed
ReaderCloseFaults == {"rwlock_destroy", "freeDStream", "freeDCtx"}

\* what writing past the end of an allocation leads to: nothing that shows,
\* or the end of the process when the allocator finds its records damaged
OverflowOutcomes == {"unnoticed", "abort"}

\* A close works on c = [x, cap, is_error, errbuf, ev, failed, returned]:
\* the object and its sink, the capacity of cbuf, the flag and the message
\* of the code, the calls made so far, those that failed, and whether the
\* close came back.
CloseStart(x, cap) ==
    [x |-> x, cap |-> cap, is_error |-> FALSE, errbuf |-> "", ev |-> <<>>,
     failed |-> <<>>, returned |-> FALSE]

\* a call whose result is checked:
\* if (failed && !is_error) { set_error(errbuf, msg); is_error = true; }
Checked(c, call, fails, msg) ==
    [c EXCEPT !.ev = Append(@, call),
              !.failed = IF fails THEN Append(@, call) ELSE @,
              !.errbuf = IF fails /\ ~c.is_error THEN msg ELSE @,
              !.is_error = @ \/ fails]

\* a call that returns nothing
Unchecked(c, call) == [c EXCEPT !.ev = Append(@, call)]

\* end_frame_zstd / end_frame_zstd_mt / end_frame_lz4 (force_ste) as called
\* by close: [ok, x, cap].  A frame that fails leaves the sink and the
\* frame log as they were.
end_frame_path(x, cap, flt) ==
    LET Resized(need) ==
            IF need > cap /\ "resize" \in flt
            THEN [ok |-> FALSE, x |-> x, cap |-> cap]
            ELSE IF "compress" \in flt \/ "write" \in flt
            THEN [ok |-> FALSE, x |-> x, cap |-> zseek_buffer_reserve(cap, need)]
            ELSE [ok |-> TRUE,
                  x |-> IF x.w.type = "ZSTD" THEN end_frame_zstd(x, TRUE)
                        ELSE end_frame_lz4(x, TRUE),
                  cap |-> zseek_buffer_reserve(cap, need)]
    IN  Resized(IF x.w.type = "LZ4" THEN LZ4F_compressFrameBound(x.w.frame_uc)
                ELSE IF x.w.mt THEN ZSTD_CStreamOutSize
                ELSE ZSTD_compressBound(Len(x.w.ubuf)))

\* zseek_buffer_free(cbuf); ZSTD_seekable_freeFrameLog(fl);
\* zseek_buffer_free(ubuf); ZSTD_freeCCtx(cctx_zstd); free(writer)
WriterReleased(c, flt) ==
    LET Writer(c4) == [Unchecked(c4, "free(writer)") EXCEPT
                          !.returned = TRUE, !.x.w.state = "closed"]
        Context(c3) ==
            IF c3.x.w.type = "ZSTD"
            THEN Writer(Checked(c3, "ZSTD_freeCCtx", "freeCCtx" \in flt, "free context"))
            ELSE Writer(c3)
    IN  Context(Unchecked(
            Checked(Unchecked(c, "zseek_buffer_free(cbuf)"),
                    "ZSTD_seekable_freeFrameLog", FALSE, "free frame log"),
            "zseek_buffer_free(ubuf)"))

\* zseek_writer_close_zstd / zseek_writer_close_lz4, step by step.  The
\* seek table is written in chunks of cbuf_len bytes into cbuf, whatever
\* the resize gave: a chunk longer than the capacity runs past the end of
\* the allocation, and `ub` is what comes of it.
zseek_writer_close_path(x, cap, flt, ub) ==
    LET Trailer(c, cbuf_len) ==
            IF MIN(cbuf_len, ZSTD_seekable_seekTableSize(c.x.w.fl)) > c.cap
                 /\ ub = "abort"
            THEN Unchecked(c, "ZSTD_seekable_writeSeekTable")
            ELSE WriterReleased(
                     Checked([Unchecked(c, "ZSTD_seekable_writeSeekTable") EXCEPT
                                 !.x = IF "write" \in flt
                                       THEN [WriteTrailer(c.x, cbuf_len) EXCEPT
                                                !.file = c.x.file]
                                       ELSE WriteTrailer(c.x, cbuf_len)],
                             "write", "write" \in flt, "write to file failed"),
                     flt)
        Resize(c, cbuf_len) ==
            IF cbuf_len > c.cap /\ "resize" \in flt
            THEN Trailer(Checked(c, "zseek_buffer_resize", TRUE,
                                 "resize output buffer failed"), cbuf_len)
            ELSE Trailer([Checked(c, "zseek_buffer_resize", FALSE,
                                  "resize output buffer failed") EXCEPT
                             !.cap = zseek_buffer_reserve(@, cbuf_len)], cbuf_len)
        Capacity(c) ==
            Resize(c, IF c.cap < MIN_TRAILER_CHUNK THEN MIN_TRAILER_CHUNK ELSE c.cap)
        Ended(c, e) ==
            Capacity([Checked(c, "end_frame", ~e.ok,
                              IF x.w.type = "ZSTD" THEN "end_frame_zstd failed"
                              ELSE "end_frame_lz4 failed") EXCEPT
                         !.x = e.x, !.cap = e.cap])
    IN  IF x.w.frame_uc > 0
        THEN Ended(CloseStart(x, cap), end_frame_path(x, cap, flt))
        ELSE Capacity(CloseStart(x, cap))

\* zseek_reader_close_zstd / zseek_reader_close_lz4, step by step
zseek_reader_close_path(r, flt) ==
    LET Released(c) ==
            [Unchecked(Unchecked(Unchecked(Unchecked(Unchecked(c,
                 "zseek_buffer_free(dbuf)"), "zseek_buffer_free(cbuf)"),
                 "zseek_cache_free"), "seek_table_free"), "free(reader)")
               EXCEPT !.returned = TRUE, !.x = [state |-> "closed"]]
        Context(c) ==
            IF r.type = "ZSTD"
            THEN Released(Checked(Checked(c, "ZSTD_freeDStream",
                                          "freeDStream" \in flt, "free dstream"),
                                  "ZSTD_freeDCtx", "freeDCtx" \in flt, "free context"))
            ELSE Released(Checked(c, "LZ4F_freeDecompressionContext",
                                  "freeDCtx" \in flt, "free context"))
    IN  Context(Checked(CloseStart(r, 0), "pthread_rwlock_destroy",
                        "rwlock_destroy" \in flt, "destroy lock"))

\* the scripts of the writers that are closed: those of the archives, and
\* a run of calls that fills LongEntries seek table entries
LongEntries == 7
CloseScripts ==
    Scripts \cup {[i \in 1..(LongEntries * DEFAULT_FRAMES_PER_STE) |-> MaxWriteLen]}

InitK ==
    /\ \E k \in WriterKinds, s \in CloseScripts :
         \E x \in {RunScript([w |-> zseek_writer_open_full(k[1], k[2], MaxMinFrameSize),
                              file |-> <<>>], s, 0)} :
             /\ w = x.w
             /\ file = x.file
             /\ accepted = InputBytes(0, SumSeq(s))
    /\ rd = NoReader
    /\ last = [op |-> "open"]
    /\ acc = NoLoop /\ tl = NoBench /\ cb = NoCacheBench /\ th = NoThreads
    /\ io = GoodSource

\* ok = zseek_writer_close(writer, errbuf)
KWriterClose ==
    /\ w.state = "open"
    /\ \E flt \in SUBSET CloseFaults, ub \in OverflowOutcomes :
         \E c \in {zseek_writer_close_path([w |-> w, file |-> file],
                       zseek_buffer_capacity([w |-> w, file |-> file]), flt, ub)} :
             /\ w' = IF c.returned THEN c.x.w ELSE [state |-> "aborted"]
             /\ file' = c.x.file
             /\ last' = [op |-> "writer_close", type |-> w.type, flt |-> flt,
                         returned |-> c.returned, ok |-> ~c.is_error,
                         errbuf |-> c.errbuf, ev |-> c.ev, failed |-> c.failed]
    /\ UNCHANGED <<io, cb, th, accepted, rd, acc, tl>>

\* reader = zseek_reader_open(file, cache_size) on what the close left
KReaderOpen ==
    /\ w.state = "closed"
    /\ rd = NoReader
    /\ \E cache_size \in 0..MaxCacheSize :
         rd' = zseek_reader_open_full(file, cache_size, 0)
    /\ last' = [op |-> "reader_open"]
    /\ UNCHANGED <<io, cb, th, w, file, accepted, acc, tl>>

\* ok = zseek_reader_close(reader, errbuf)
KReaderClose ==
    /\ rd.state = "open"
    /\ \E flt \in SUBSET ReaderCloseFaults :
         \E c \in {zseek_reader_close_path(rd, flt)} :
             /\ rd' = c.x
             /\ last' = [op |-> "reader_close", type |-> rd.type, flt |-> flt,
                         returned |-> c.returned, ok |-> ~c.is_error,
                         errbuf |-> c.errbuf, ev |-> c.ev, failed |-> c.failed]
    /\ UNCHANGED <<io, cb, th, w, file, accepted, acc, tl>>

NextK == KWriterClose \/ KReaderOpen \/ KReaderClose

SpecK == InitK /\ [][NextK]_vars

\* the calls that release what a writer of a type holds
WriterReleases(type) ==
    {"zseek_buffer_free(cbuf)", "ZSTD_seekable_freeFrameLog",
     "zseek_buffer_free(ubuf)", "free(writer)"}
        \cup (IF type = "ZSTD" THEN {"ZSTD_freeCCtx"} ELSE {})

\* the calls that release what a reader of a type holds
ReaderReleases(type) ==
    {"pthread_rwlock_destroy", "zseek_buffer_free(dbuf)", "zseek_buffer_free(cbuf)",
     "zseek_cache_free", "seek_table_free", "free(reader)"}
        \cup (IF type = "ZSTD" THEN {"ZSTD_freeDStream", "ZSTD_freeDCtx"}
              ELSE {"LZ4F_freeDecompressionContext"})

\* how often a call was made
Times(ev, call) == Cardinality({k \in 1..Len(ev) : ev[k] = call})

\* the message of the step that failed first
FirstError(type, failed) ==
    LET Of(call) ==
            IF call = "end_frame"
            THEN (IF type = "ZSTD" THEN "end_frame_zstd failed" ELSE "end_frame_lz4 failed")
            ELSE IF call = "zseek_buffer_resize" THEN "resize output buffer failed"
            ELSE IF call = "write" THEN "write to file failed"
            ELSE IF call = "pthread_rwlock_destroy" THEN "destroy lock"
            ELSE IF call = "ZSTD_freeDStream" THEN "free dstream"
            ELSE "free context"
    IN  Of(Head(failed))

\* C18 (as stated): every zseek_writer_close comes back, whatever failed on
\* the way, and by then the codec context, the input and the output
\* buffer, the frame log and the writer itself have each been released
\* exactly once.
C18_WriterReleased ==
    last.op = "writer_close" =>
        /\ last.returned
        /\ \A call \in WriterReleases(last.type) : Times(last.ev, call) = 1

\* C19 (as stated): a close with a step that fails comes back having made
\* every release call, returns failure, and leaves in errbuf the message of
\* the step that failed first; this for the writer and for the reader.
C19_FirstError ==
    (last.op \in {"writer_close", "reader_close"} /\ last.failed # <<>>) =>
        /\ last.returned
        /\ \A call \in (IF last.op = "writer_close" THEN WriterReleases(last.type)
                        ELSE ReaderReleases(last.type)) : Times(last.ev, call) = 1
        /\ ~last.ok
        /\ last.errbuf = FirstError(last.type, last.failed)

----------------------------------------------------------------------------
(* SpecB: a zseek_buffer on its own, as test/test_buffer.c drives it:      *)
(* new, then push, reserve, resize and reset in any order.  The buffer is  *)
(* [data, size, capacity]; data is the whole allocation, of `capacity`     *)
(* bytes, of which the first `size` are the content.                       *)

\* the largest size and capacity asked for
MaxBufSize == 3

\* the bytes pushed
PushBytes == {1, 2}

\* mm->realloc(buffer->data, new_capacity): the bytes that were there stay,
\* the bytes added hold what the allocator left in them
buffer_realloc(data, new_capacity, junk) ==
    [i \in 1..new_capacity |-> IF i <= Len(data) THEN data[i] ELSE junk]

\* zseek_buffer_reserve on a buffer: [ok, b]
buffer_reserve(b, capacity, junk, fails) ==
    IF capacity <= b.capacity THEN [ok |-> TRUE, b |-> b]
    ELSE IF fails THEN [ok |-> FALSE, b |-> b]
    ELSE [ok |-> TRUE,
          b  |-> [b EXCEPT !.data = buffer_realloc(b.data,
                                        zseek_buffer_reserve(b.capacity, capacity), junk),
                           !.capacity = zseek_buffer_reserve(b.capacity, capacity)]]

\* zseek_buffer_new(mm, capacity) with an allocator that does not fail
zseek_buffer_new(capacity, junk) ==
    buffer_reserve([data |-> <<>>, size |-> 0, capacity |-> 0], capacity, junk, FALSE).b

\* zseek_buffer_push: [ok, b]
zseek_buffer_push(b, data, junk, fails) ==
    LET Pushed(re) ==
            IF ~re.ok THEN re
            ELSE [ok |-> TRUE,
                  b  |-> [re.b EXCEPT
                            !.data = [i \in 1..re.b.capacity |->
                                        IF i > b.size /\ i <= b.size + Len(data)
                                        THEN data[i - b.size] ELSE re.b.data[i]],
                            !.size = b.size + Len(data)]]
    IN  Pushed(buffer_reserve(b, b.size + Len(data), junk, fails))

\* zseek_buffer_resize: [ok, b].  Nothing is written to the bytes between
\* the old size and the new one.
zseek_buffer_resize(b, size, junk, fails) ==
    LET Resized(re) ==
            IF ~re.ok THEN re ELSE [ok |-> TRUE, b |-> [re.b EXCEPT !.size = size]]
    IN  Resized(buffer_reserve(b, size, junk, fails))

zseek_buffer_reset(b) == [b EXCEPT !.size = 0]

BufferCall(op, n, res, before) ==
    [active |-> TRUE, buffer |-> res.b, op |-> op, n |-> n, ok |-> res.ok,
     before |-> before]

InitB ==
    /\ \E capacity \in 0..MaxBufSize, junk \in UninitBytes :
         cb = BufferCall("new", capacity,
                         [ok |-> TRUE, b |-> zseek_buffer_new(capacity, junk)],
                         zseek_buffer_new(capacity, junk))
    /\ tl = NoBench /\ w = NoWriter /\ file = <<>> /\ accepted = <<>>
    /\ rd = NoReader /\ last = NoCall /\ acc = NoLoop /\ th = NoThreads
    /\ io = GoodSource

BPush ==
    /\ \E len \in 1..2, byte \in PushBytes, junk \in UninitBytes, fails \in BOOLEAN :
         /\ cb.buffer.size + len <= MaxBufSize
         /\ cb' = BufferCall("push", len,
                      zseek_buffer_push(cb.buffer, [i \in 1..len |-> byte], junk, fails),
                      cb.buffer)
    /\ UNCHANGED <<io, tl, w, file, accepted, rd, last, acc, th>>

BReserve ==
    /\ \E capacity \in 0..MaxBufSize, junk \in UninitBytes, fails \in BOOLEAN :
         cb' = BufferCall("reserve", capacity,
                   buffer_reserve(cb.buffer, capacity, junk, fails), cb.buffer)
    /\ UNCHANGED <<io, tl, w, file, accepted, rd, last, acc, th>>

BResize ==
    /\ \E size \in 0..MaxBufSize, junk \in UninitBytes, fails \in BOOLEAN :
         cb' = BufferCall("resize", size,
                   zseek_buffer_resize(cb.buffer, size, junk, fails), cb.buffer)
    /\ UNCHANGED <<io, tl, w, file, accepted, rd, last, acc, th>>

BReset ==
    /\ cb.buffer.size > 0
    /\ cb' = BufferCall("reset", 0, [ok |-> TRUE, b |-> zseek_buffer_reset(cb.buffer)],
                        cb.buffer)
    /\ UNCHANGED <<io, tl, w, file, accepted, rd, last, acc, th>>

NextB == BPush \/ BReserve \/ BResize \/ BReset

SpecB == InitB /\ [][NextB]_vars

\* C26: after a zseek_buffer_resize to n that returned true, the size is n,
\* the first min(old size, n) bytes are the ones that were there, and when
\* n is greater than the old size the bytes from the old size to n are zero.
C26_ResizeContract ==
    (cb.op = "resize" /\ cb.ok) =>
        /\ cb.buffer.size = cb.n
        /\ \A i \in 1..MIN(cb.before.size, cb.n) : cb.buffer.data[i] = cb.before.data[i]
        /\ \A i \in (cb.before.size + 1)..cb.n : cb.buffer.data[i] = 0

----------------------------------------------------------------------------
(* SpecD: zseek_reader_open on archives whose trailer was damaged after    *)
(* the writer closed them: one byte of the footer magic, of the skippable  *)
(* magic or of the frame size changed, a reserved bit of the descriptor    *)
(* set, the number of frames raised, or the file cut to fewer bytes than   *)
(* a footer has.  last.reads lists the offsets that read_seek_table hands  *)
(* to user_file.pread.                                                     *)

DamageKinds == {"footer_magic", "reserved_bit", "header_magic", "header_size",
                "num_frames", "cut"}

\* which byte, which bit, how many frames more, how many bytes kept
DamageSteps == 0..4

\* the writes of the archives that get damaged
DamagedScripts == {<<1>>, <<MaxWriteLen, MaxWriteLen>>, SharedScript}

\* 1-based place of the first byte of the trailer of a sound archive
TrailerStart(f) == Len(f) - TrailerSize(read_seek_table(f, 0)) + 1

Damaged(f, kind, k) ==
    IF kind = "footer_magic"
    THEN [f EXCEPT ![Len(f) - 3 + (k % 4)] = (@ + 1) % 256]
    ELSE IF kind = "reserved_bit"
    THEN [f EXCEPT ![Len(f) - 4] = @ + 2 ^ (k + 2)]
    ELSE IF kind = "header_magic"
    THEN [f EXCEPT ![TrailerStart(f) + (k % 4)] = (@ + 1) % 256]
    ELSE IF kind = "header_size"
    THEN [f EXCEPT ![TrailerStart(f) + 4 + (k % 4)] = (@ + 1) % 256]
    ELSE IF kind = "num_frames"
    THEN [f EXCEPT ![Len(f) - 8] = @ + 1 + k]
    ELSE SubSeq(f, 1, 4 + k)

\* the offsets of the user_file.pread calls of read_seek_table and of
\* read_st_entries, in order
read_seek_table_offsets(f) ==
    LET fsize  == Len(f)
        footer == PreadFile(f, ZSTD_seekTableFooterSize, fsize - ZSTD_seekTableFooterSize)
        Header(seek_frame_size, num_frames) ==
            LET header == PreadFile(f, ZSTD_SKIPPABLEHEADERSIZE, fsize - seek_frame_size)
            IN  IF header.n # ZSTD_SKIPPABLEHEADERSIZE
                   \/ SubSeq(header.data, 1, 4) # SEEKTABLE_SKIPPABLE_MAGICNUMBER
                   \/ MEM_readLE32(header.data, 4) # seek_frame_size - ZSTD_SKIPPABLEHEADERSIZE
                   \/ num_frames = 0
                THEN <<fsize - seek_frame_size>>
                ELSE <<fsize - seek_frame_size,
                       fsize - seek_frame_size + ZSTD_SKIPPABLEHEADERSIZE>>
    IN  IF footer.n # ZSTD_seekTableFooterSize
           \/ SubSeq(footer.data, 6, 9) # ZSTD_SEEKABLE_MAGICNUMBER
           \/ BitAnd7c(footer.data[5])
        THEN <<fsize - ZSTD_seekTableFooterSize>>
        ELSE <<fsize - ZSTD_seekTableFooterSize>> \o
             Header(ZSTD_SKIPPABLEHEADERSIZE
                      + MEM_readLE32(footer.data, 0)
                          * (SEEK_ENTRY_SIZE_NO_CHECKSUM
                               + (IF BitAnd80(footer.data[5])
                                  THEN SEEK_ENTRY_CHECKSUM_SIZE ELSE 0))
                      + ZSTD_seekTableFooterSize,
                    MEM_readLE32(footer.data, 0))

InitD ==
    /\ \E k \in WriterKinds, script \in DamagedScripts :
         \E x \in {zseek_writer_close(
                    RunScript([w |-> zseek_writer_open_full(k[1], k[2], MaxMinFrameSize),
                               file |-> <<>>], script, 0))} :
             /\ file = x.file
             /\ accepted = InputBytes(0, SumSeq(script))
    /\ w = NoWriter
    /\ rd = NoReader
    /\ last = [op |-> "close", kind |-> "none"]
    /\ acc = NoLoop /\ tl = NoBench /\ cb = NoCacheBench /\ th = NoThreads
    /\ io = GoodSource

\* the archive is damaged where it lies
DDamage ==
    /\ last.op = "close"
    /\ \E kind \in DamageKinds, k \in DamageSteps :
         /\ file' = Damaged(file, kind, k)
         /\ last' = [op |-> "damage", kind |-> kind]
    /\ UNCHANGED <<io, cb, th, w, accepted, rd, acc, tl>>

\* reader = zseek_reader_open_full(user_file, cache_size)
DOpen ==
    /\ rd = NoReader
    /\ \E cache_size \in 0..MaxCacheSize :
         /\ rd' = zseek_reader_open_full(file, cache_size, 0)
         /\ last' = [op |-> "open", kind |-> last.kind,
                     reads |-> IF PreadFile(file, 4, 0).data \in {ZSTD_MAGIC, LZ4_MAGIC}
                               THEN read_seek_table_offsets(file) ELSE <<>>]
    /\ UNCHANGED <<io, cb, th, w, file, accepted, acc, tl>>

NextD == DDamage \/ DOpen

SpecD == InitD /\ [][NextD]_vars

\* C40 (as stated): the open of an archive with a damaged trailer gives no
\* reader, and none of its reads starts ahead of the file or past its end.
C40_MalformedRejected ==
    (last.op = "open" /\ last.kind # "none") =>
        /\ rd = FailedReader
        /\ \A i \in 1..Len(last.reads) :
              last.reads[i] >= 0 /\ last.reads[i] <= Len(file)

----------------------------------------------------------------------------
(* SpecST: the seek-table codec on its own.  A frame log is filled with    *)
(* ZSTD_seekable_logFrame, encoded by repeated ZSTD_seekable_writeSeekTable *)
(* calls into output chunks of some capacity (the do-while of              *)
(* zseek_writer_close), parsed back with read_seek_table and searched with *)
(* offset_to_frame_idx.  tl.calls counts the calls of the encoder until    *)
(* the trailer is parsed.                                                  *)

\* (compressedSize, decompressedSize, checksum) arguments of logFrame
EntryPool ==
    { [cSize |-> 9,   dSize |-> 0,     checksum |-> 0],
      [cSize |-> 6,   dSize |-> 1,     checksum |-> 7],
      [cSize |-> 300, dSize |-> 70000, checksum |-> 16909060] }

\* output chunk capacities offered to the encoder
ChunkCaps == {1, 5, MIN_TRAILER_CHUNK}

InitST ==
    /\ tl \in { [phase |-> "log", fl |-> ZSTD_seekable_createFrameLog(c), out |-> <<>>,
                 st |-> NoST, off |-> -1, idx |-> -1, calls |-> 0] : c \in {0, 1} }
    /\ w = NoWriter /\ file = <<>> /\ accepted = <<>>
    /\ rd = NoReader /\ last = NoCall /\ acc = NoLoop /\ th = NoThreads
    /\ cb = NoCacheBench
    /\ io = GoodSource

STLogFrame ==
    /\ tl.phase = "log"
    /\ Len(tl.fl.entries) < MaxEntries
    /\ \E e \in EntryPool :
         tl' = [tl EXCEPT !.fl = ZSTD_seekable_logFrame(@, e.cSize, e.dSize, e.checksum)]
    /\ UNCHANGED <<io, cb, th, w, file, accepted, rd, last, acc>>

\* one iteration of the trailer loop: encode into a chunk, append the chunk
STEncode ==
    /\ tl.phase \in {"log", "encode"}
    /\ \E cap \in ChunkCaps :
         LET r == ZSTD_seekable_writeSeekTable(tl.fl, cap)
         IN  tl' = [tl EXCEPT !.fl = r.fl, !.out = @ \o r.dst, !.calls = @ + 1,
                              !.phase = IF r.ret = 0 THEN "encoded"
                                        ELSE IF r.ret < 0 THEN "failed"
                                        ELSE "encode"]
    /\ UNCHANGED <<io, cb, th, w, file, accepted, rd, last, acc>>

STParse ==
    /\ tl.phase = "encoded"
    /\ \E u \in UninitWords :
         tl' = [tl EXCEPT !.st = read_seek_table(tl.out, u), !.phase = "parsed",
                          !.calls = 0]
    /\ UNCHANGED <<io, cb, th, w, file, accepted, rd, last, acc>>

STLookup ==
    /\ tl.phase \in {"parsed", "looked"}
    /\ tl.st # NoST
    /\ \E off \in LookupOffsets(tl.st) :
         tl' = [tl EXCEPT !.off = off, !.idx = offset_to_frame_idx(tl.st, off),
                          !.phase = "looked"]
    /\ UNCHANGED <<io, cb, th, w, file, accepted, rd, last, acc>>

NextST == STLogFrame \/ STEncode \/ STParse \/ STLookup

SpecST == InitST /\ [][NextST]_vars

\* C22: once the encoder has returned 0, the chunks it filled add up to a
\* trailer of 8 + 8N + 9 bytes for a frame log of N entries without
\* checksums and of 8 + 12N + 9 bytes for one with checksums, whatever the
\* capacities of the chunks; and the encoder never fails.
C22_TrailerLength ==
    /\ tl.phase # "failed"
    /\ tl.phase = "encoded" =>
          Len(tl.out) = 8 + (IF tl.fl.checksumFlag = 0 THEN 8 ELSE 12) * Len(tl.fl.entries) + 9

\* a trailer of MaxEntries entries with checksums, encoded into chunks of
\* which some held a single byte
C22_Witness ==
    /\ tl.phase = "encoded"
    /\ tl.fl.checksumFlag = 1
    /\ Len(tl.fl.entries) = MaxEntries
    /\ Len(tl.out) = 8 + 12 * MaxEntries + 9

\* the trailer of a frame log as one call with room for all of it gives it
WholeTrailer(fl) ==
    ZSTD_seekable_writeSeekTable([fl EXCEPT !.seekTablePos = 0, !.seekTableIndex = 0],
                                 ZSTD_seekable_seekTableSize(fl))

\* C38: whatever the capacities of the chunks offered to the encoder, one
\* byte included, the chunks filled so far put end to end are the first
\* bytes of the trailer that a single call with room for all of it writes,
\* as many as seekTablePos counts; the encoder returns 0 when and only when
\* they are the whole of that trailer, it never fails, and every call puts
\* one byte or more into its chunk, so that the loop of the caller ends.
C38_Resumable ==
    /\ [](tl.phase \in {"log", "encode", "encoded"} =>
             \A whole \in {WholeTrailer(tl.fl)} :
                 /\ whole.ret = 0
                 /\ Len(tl.out) = tl.fl.seekTablePos
                 /\ Len(tl.out) <= Len(whole.dst)
                 /\ tl.out = SubSeq(whole.dst, 1, Len(tl.out))
                 /\ tl.phase = "encoded" <=> (tl.calls > 0 /\ tl.out = whole.dst))
    /\ [](tl.phase # "failed")
    /\ [][tl.phase \in {"log", "encode"} /\ tl'.calls = tl.calls + 1 =>
            Len(tl'.out) > Len(tl.out)]_vars

\* a trailer of MaxEntries entries with checksums that took one call of the
\* encoder for each of its bytes
C38_Witness ==
    /\ tl.phase = "encoded"
    /\ tl.fl.checksumFlag = 1
    /\ Len(tl.fl.entries) = MaxEntries
    /\ tl.calls = ZSTD_seekable_seekTableSize(tl.fl)
    /\ tl.out = WholeTrailer(tl.fl).dst

\* the logged entries and the sums of their sizes
LoggedSum(field) ==
    SumSeq([i \in 1..Len(tl.fl.entries) |-> tl.fl.entries[i][field]])

RoundTripSizes ==
    /\ tl.st # NoST
    /\ tl.st.tableLen = Len(tl.fl.entries)
    /\ \A i \in 1..Len(tl.fl.entries) :
         /\ frame_size_c(tl.st, i - 1) = tl.fl.entries[i].cSize
         /\ frame_size_d(tl.st, i - 1) = tl.fl.entries[i].dSize
    /\ tl.st.entries[tl.st.tableLen + 1].cOffset = LoggedSum("cSize")
    /\ tl.st.entries[tl.st.tableLen + 1].dOffset = LoggedSum("dSize")

RoundTripChecksums ==
    \A i \in 1..Len(tl.fl.entries) :
        tl.st.entries[i].checksum = tl.fl.entries[i].checksum

\* C9 (as stated): encoding a frame log and parsing the trailer gives a table
\* with the same number of entries, the same (cSize, dSize, checksum) in
\* order, and sentinel offsets equal to the sums of the sizes.
C9_AsStated ==
    tl.phase \in {"parsed", "looked"} => RoundTripSizes /\ RoundTripChecksums

\* C9 (amended): the sizes and the sentinel sums always round-trip; the
\* checksums round-trip when the log carries the checksum flag (without it
\* they are not encoded and the parsed field is never assigned).
C9_RoundTrip ==
    tl.phase \in {"parsed", "looked"} =>
        /\ RoundTripSizes
        /\ tl.st.checksumFlag = tl.fl.checksumFlag
        /\ (tl.fl.checksumFlag # 0 => RoundTripChecksums)

\* a parsed table of a checksummed log with several entries, split over
\* several encoder calls
C9_Witness ==
    /\ tl.phase = "parsed"
    /\ tl.fl.checksumFlag = 1
    /\ Len(tl.fl.entries) = MaxEntries
    /\ \E i \in 1..Len(tl.fl.entries) : tl.fl.entries[i].checksum = 16909060
    /\ RoundTripSizes /\ RoundTripChecksums

\* the result the binary search must give for offset `off`
GreatestIdx(st, off) ==
    CHOOSE i \in 0..(st.tableLen - 1) :
        /\ st.entries[i + 1].dOffset <= off
        /\ \A j \in 0..(st.tableLen - 1) : st.entries[j + 1].dOffset <= off => j <= i

LookupInRange ==
    IF tl.off >= seek_table_decompressed_size(tl.st) THEN tl.idx = -1
    ELSE /\ tl.idx \in 0..(tl.st.tableLen - 1)
         /\ frame_offset_d(tl.st, tl.idx) <= tl.off
         /\ tl.off < frame_offset_d(tl.st, tl.idx + 1)
         /\ tl.idx = GreatestIdx(tl.st, tl.off)

============================================================================
